---- MODULE Spec2Model ----
(***************************************************************************)
(* Bet consistency and grading engine of FortunasBetLambdas.               *)
(*                                                                         *)
(* The bet table (DynamoDB) is the set `store` of items; an item's key is  *)
(* its PK/SK pair.  The ESPN feed is an external collaborator: every call  *)
(* of get_event / get_nfl_schedule receives a payload drawn from a small   *)
(* catalogue of raw payloads.  Half-point lines (-3.5, 45.5) are kept as   *)
(* integers in half points; scores are integers.  Python None is the empty *)
(* tuple NULL and a present value v is <<v>>.  Timestamps are epoch        *)
(* seconds, the process time zone is UTC (AWS Lambda).                     *)
(***************************************************************************)
EXTENDS Integers, Sequences, FiniteSets, TLC

VARIABLES
    store,    \* the bet items of the table
    now,      \* the wall clock read by datetime.now()
    hist,     \* per game: what the feed has answered so far
    lastOp,   \* the handler that ran last: its request and its outcome
    procs     \* concurrent requests in flight: position and local copies

vars == <<store, now, hist, lastOp, procs>>

NULL == <<>>
Some(v) == <<v>>
Val(o) == o[1]

----------------------------------------------------------------------------
(* Bounds of the model *)

MaxClock == 2
MaxBets == 2
MaxProcs == 3

----------------------------------------------------------------------------
(* Strings: str.lower() on the status, selection and league vocabulary *)

Lower(s) ==
    CASE s = "STATUS_FINAL" -> "status_final"
      [] s = "STATUS_SCHEDULED" -> "status_scheduled"
      [] s = "STATUS_IN_PROGRESS" -> "status_in_progress"
      [] s = "Final/OT" -> "final/ot"
      [] s = "Final" -> "final"
      [] s = "FINAL" -> "final"
      [] s = "Football" -> "football"
      [] s = "NFL" -> "nfl"
      [] s = "NCAA" -> "ncaa"
      [] s = "Home" -> "home"
      [] s = "Over" -> "over"
      [] OTHER -> s

\* str.upper() on the status vocabulary
Upper(s) ==
    CASE s = "status_scheduled" -> "STATUS_SCHEDULED"
      [] s = "scheduled" -> "SCHEDULED"
      [] s = "pre" -> "PRE"
      [] s = "Final" -> "FINAL"
      [] s = "final" -> "FINAL"
      [] s = "live" -> "LIVE"
      [] OTHER -> s

----------------------------------------------------------------------------
(* The feed: raw ESPN summary payloads and ESPNClient.get_event            *)
(*                                                                         *)
(* A raw payload is                                                        *)
(*   [kind |-> "error"]     timeout or HTTP error (RequestException)       *)
(*   [kind |-> "empty"]     a body without header or competitions          *)
(*   [kind |-> "event", type |-> status type, competitors |-> sequence]    *)
(* A raw competitor score is <<"num", n>> (a numeric string), <<"absent",  *)
(* 0>> (no score key) or <<"bad", 0>> (null or not a number).              *)

RawType(name, state, completed, detail) ==
    [name |-> name, state |-> state, completed |-> completed, detail |-> detail]

RawComp(ha, score) == [homeAway |-> ha, score |-> score]

RawEvent(type, competitors) ==
    [kind |-> "event", type |-> type, competitors |-> competitors]

RawError == [kind |-> "error", type |-> RawType("", "", FALSE, ""), competitors |-> <<>>]

RawEmpty == [kind |-> "empty", type |-> RawType("", "", FALSE, ""), competitors |-> <<>>]

Num(n) == <<"num", n>>
Absent == <<"absent", 0>>
Bad == <<"bad", 0>>

\* competitor.get("score", "0")
ScoreOrDefault(score) == IF score = Absent THEN Num(0) ELSE score

\* the competitors as get_event returns them
TeamsData(competitors) ==
    [i \in 1..Len(competitors) |->
        [homeAway |-> competitors[i].homeAway,
         score |-> ScoreOrDefault(competitors[i].score)]]

\* the event dictionary: status carries the scores of the first two teams
EventData(type, teams_data) ==
    [kind |-> "data",
     status |-> [name |-> type.name, state |-> type.state,
                 completed |-> type.completed, detail |-> type.detail,
                 home_score |-> teams_data[1].score,
                 away_score |-> teams_data[2].score],
     competitors |-> teams_data]

\* what a call returns when no event dictionary is produced
NoEvent(kind) == [kind |-> kind, status |-> NULL, competitors |-> <<>>]

\* get_event: {} on a request error or a body without competitions,
\* IndexError when the competition lists fewer than two competitors, else the
\* event dictionary
get_event(raw) ==
    IF raw.kind # "event" THEN NoEvent("empty")
    ELSE IF Len(raw.competitors) < 2 THEN NoEvent("raise")
    ELSE EventData(raw.type, TeamsData(raw.competitors))

----------------------------------------------------------------------------
(* Bet items *)

\* PK = ROOM#{room_id}
PK(room_id) == <<"ROOM#", room_id>>

\* SK = POINT#{points_wagered}#USER#{user_id}#EVENT#{event_datetime}; a user
\* id is a sequence of characters, the other parts are single tokens (the
\* numbers formatted as text)
SK(points_wagered, user_id, event_datetime) ==
    <<"POINT#", ToString(points_wagered), "#USER#">> \o user_id
        \o <<"#EVENT#", ToString(event_datetime)>>

\* BetModel(...).dict() plus PK and SK, as create_bet writes it
BetItem(room_id, points_wagered, user_id, fx, game_bet, spreadDetails) ==
    [PK |-> PK(room_id),
     SK |-> SK(points_wagered, user_id, fx.event_datetime),
     room_id |-> room_id,
     points_wagered |-> points_wagered,
     user_id |-> user_id,
     event_datetime |-> fx.event_datetime,
     game_id |-> fx.game_id,
     sport |-> fx.sport,
     league |-> fx.league,
     game_bet |-> game_bet,
     odds_snapshot |-> [spreadDetails |-> spreadDetails, status |-> NULL],
     total_points_earned |-> NULL,
     graded_at |-> NULL]

\* GameBet: result and points_earned default to None
GameBet(bet_type, team_choice, spread_value, over_under_choice, total_value) ==
    [bet_type |-> bet_type,
     team_choice |-> team_choice,
     spread_value |-> spread_value,
     over_under_choice |-> over_under_choice,
     total_value |-> total_value,
     result |-> NULL,
     points_earned |-> NULL]

\* table.put_item: replaces the item of the same key
PutItem(s, item) == {i \in s : ~(i.PK = item.PK /\ i.SK = item.SK)} \cup {item}

\* table.get_item
GetItem(s, pk, sk) == {i \in s : i.PK = pk /\ i.SK = sk}

----------------------------------------------------------------------------
(* Grading *)

\* float(spread_details.split(" ")[1]): a token is <<"num", half points>> or
\* <<"word", 0>>; the result is <<"ok", v>> or <<"err", 0>>
ParseSpreadDetails(spread_details) ==
    IF Len(spread_details) < 2 THEN <<"err", 0>>
    ELSE IF spread_details[2][1] # "num" THEN <<"err", 0>>
    ELSE <<"ok", spread_details[2][2]>>

\* int(competitor.get("score", 0)) succeeds for every competitor
ScoresParse(competitors) ==
    \A i \in 1..Len(competitors) : competitors[i].score[1] = "num"

Abs(x) == IF x < 0 THEN -x ELSE x

\* the competitors of one designation
SideIndexes(competitors, side) ==
    {i \in 1..Len(competitors) : Lower(competitors[i].homeAway) = side}

\* the score of the last of them, as the loop leaves it
LastScore(competitors, idx) ==
    IF idx = {} THEN NULL
    ELSE Some(competitors[CHOOSE i \in idx : \A j \in idx : j <= i].score[2])

\* the score read by list position: home first, away second
ScoreOfByPosition(competitors, side) ==
    Some(competitors[IF side = "home" THEN 1 ELSE 2].score[2])

\* home_score / away_score: matched by the homeAway designation
ScoreOf(competitors, side) == LastScore(competitors, SideIndexes(competitors, side))

RECURSIVE SumScores(_, _)
SumScores(competitors, n) ==
    IF n = 0 THEN 0 ELSE competitors[n].score[2] + SumScores(competitors, n - 1)

\* margin = selected_score - opponent_score
Margin(selected_team, home_score, away_score) ==
    IF Lower(selected_team) = "home" THEN home_score - away_score
    ELSE away_score - home_score

\* a rule that does not look at the sign of the line
UserWinsSpreadOneRule(spread_value, margin) == 2 * margin > spread_value

\* user_wins of a spread bet; the line is in half points
UserWinsSpread(spread_value, margin) ==
    IF spread_value < 0 THEN 2 * margin >= Abs(spread_value)
    ELSE 2 * margin > spread_value

\* points_earned = points_wagered if user_wins else 0
PointsFor(points_wagered, user_wins) == IF user_wins THEN Some(points_wagered) ELSE Some(0)

\* the spread bet once both scores are read
SpreadFromScores(bet_data, spread_value, home_score, away_score) ==
    IF home_score = NULL \/ away_score = NULL THEN NULL
    ELSE PointsFor(bet_data.points_wagered,
                   UserWinsSpread(spread_value,
                                  Margin(bet_data.game_bet.team_choice,
                                         Val(home_score), Val(away_score))))

\* the spread bet once the line is parsed
SpreadFromLine(bet_data, parsed, competitors) ==
    IF parsed[1] # "ok" THEN NULL
    ELSE IF Len(competitors) = 0 THEN NULL
    ELSE IF ~ScoresParse(competitors) THEN NULL
    ELSE SpreadFromScores(bet_data, parsed[2], ScoreOf(competitors, "home"),
                          ScoreOf(competitors, "away"))

\* _grade_spread_bet: points earned, or NULL when grading is abandoned
_grade_spread_bet(bet_data, game_data) ==
    IF bet_data.odds_snapshot.spreadDetails = NULL THEN NULL
    ELSE SpreadFromLine(bet_data,
                        ParseSpreadDetails(bet_data.odds_snapshot.spreadDetails),
                        game_data.competitors)

\* a rule that pays when the total equals the line
UserWinsTotalInclusive(over_under_choice, total_score, total_line) ==
    IF Lower(over_under_choice) = "over" THEN 2 * total_score >= total_line
    ELSE 2 * total_score <= total_line

\* user_wins of an over/under bet; the line is in half points
UserWinsTotal(over_under_choice, total_score, total_line) ==
    IF Lower(over_under_choice) = "over" THEN 2 * total_score > total_line
    ELSE 2 * total_score < total_line

\* _grade_over_under_bet
_grade_over_under_bet(bet_data, game_data) ==
    IF bet_data.game_bet.total_value = NULL THEN NULL
    ELSE IF Len(game_data.competitors) = 0 THEN NULL
    ELSE IF ~ScoresParse(game_data.competitors) THEN NULL
    ELSE PointsFor(bet_data.points_wagered,
                   UserWinsTotal(bet_data.game_bet.over_under_choice,
                                 SumScores(game_data.competitors,
                                           Len(game_data.competitors)),
                                 Val(bet_data.game_bet.total_value)))

\* result_text = "win" if points_earned > 0 else "loss"
ResultText(points_earned) == IF points_earned > 0 THEN "win" ELSE "loss"

\* an update that sets the total only
_update_total_only(bet_data, points_earned, t) ==
    [bet_data EXCEPT !.total_points_earned = Some(points_earned)]

\* _update_bet_result: the graded record, written whole
_update_bet_result(bet_data, points_earned, t) ==
    [bet_data EXCEPT !.total_points_earned = Some(points_earned),
                     !.graded_at = Some(t),
                     !.game_bet.result = Some(ResultText(points_earned)),
                     !.game_bet.points_earned = Some(points_earned)]

\* a finality test that does not look at the state
is_final_without_state(status) ==
    \/ Lower(status.name) \in {"final", "status_final"}
    \/ Lower(status.detail) = "final"
    \/ status.completed = TRUE

\* a test that takes every fetched event for a finished game
is_final_always(status) == TRUE

\* is_final: any of the four signals
is_final(status) ==
    \/ Lower(status.name) \in {"final", "status_final"}
    \/ Lower(status.detail) = "final"
    \/ status.completed = TRUE
    \/ status.state = "post"

\* bet_data["odds_snapshot"]["status"] = status_data
WithStatus(bet_data, status_data) ==
    [bet_data EXCEPT !.odds_snapshot.status = Some(status_data)]

\* points_earned by bet type
points_earned(bet_data, game_data) ==
    IF bet_data.game_bet.bet_type = "spread" THEN _grade_spread_bet(bet_data, game_data)
    ELSE IF bet_data.game_bet.bet_type = "over_under"
    THEN _grade_over_under_bet(bet_data, game_data)
    ELSE NULL

\* what check_and_grade_bet reports: ret is the returned dictionary (NULL for
\* None), puts the items written to the table in order, feedCalls the number
\* of get_event calls
Graded(ret, puts, feedCalls) == [ret |-> ret, puts |-> puts, feedCalls |-> feedCalls]

\* the end of check_and_grade_bet: the second write when points were computed
GradeAfterPoints(with_status, points, t) ==
    IF points = NULL THEN Graded(NULL, <<with_status>>, 1)
    ELSE Graded(Some(_update_bet_result(with_status, Val(points), t)),
                <<with_status, _update_bet_result(with_status, Val(points), t)>>, 1)

\* after the status is written: the finality test and the grading
GradeAfterStatus(with_status, game_data, t) ==
    IF ~is_final(game_data.status) THEN Graded(Some(with_status), <<with_status>>, 1)
    ELSE GradeAfterPoints(with_status, points_earned(with_status, game_data), t)

\* a grader that writes the record back when no event came back
GradeAfterFetchWriting(bet_data, game_data, t) ==
    IF game_data.kind # "data" THEN Graded(NULL, <<bet_data>>, 1)
    ELSE GradeAfterStatus(WithStatus(bet_data, game_data.status), game_data, t)

\* after the fetch: nothing is written when no event came back (get_event
\* returned {} or raised, which the grader's catch-all turns into None)
GradeAfterFetch(bet_data, game_data, t) ==
    IF game_data.kind # "data" THEN Graded(NULL, <<>>, 1)
    ELSE GradeAfterStatus(WithStatus(bet_data, game_data.status), game_data, t)

\* a grader without the already-graded test
check_and_grade_bet_again(bet_data, raw, t) ==
    GradeAfterFetch(bet_data, get_event(raw), t)

\* check_and_grade_bet on the record bet_data with the feed answering raw at
\* time t
check_and_grade_bet(bet_data, raw, t) ==
    IF bet_data.total_points_earned # NULL THEN Graded(NULL, <<>>, 0)
    ELSE GradeAfterFetch(bet_data, get_event(raw), t)

RECURSIVE ApplyPuts(_, _)
ApplyPuts(s, puts) ==
    IF puts = <<>> THEN s ELSE ApplyPuts(PutItem(s, Head(puts)), Tail(puts))

----------------------------------------------------------------------------
(* Week boundaries: WeekHelper and NFLHelper *)

SecondsPerDay == 86400

\* datetime(y, m, d) as days since 1970-01-01 (proleptic Gregorian calendar)
DaysFromCivil(y, m, d) ==
    LET yy == IF m <= 2 THEN y - 1 ELSE y
        era == yy \div 400
        yoe == yy - era * 400
        mp == IF m > 2 THEN m - 3 ELSE m + 9
        doy == (153 * mp + 2) \div 5 + d - 1
        doe == yoe * 365 + yoe \div 4 - yoe \div 100 + doy
    IN era * 146097 + doe - 719468

\* datetime.fromtimestamp(t).year
YearOf(t) ==
    LET z == t \div SecondsPerDay + 719468
        era == z \div 146097
        doe == z - era * 146097
        yoe == (doe - doe \div 1460 + doe \div 36524 - doe \div 146096) \div 365
        doy == doe - (365 * yoe + yoe \div 4 - yoe \div 100)
        mp == (5 * doy + 2) \div 153
        m == IF mp < 10 THEN mp + 3 ELSE mp - 9
    IN yoe + era * 400 + (IF m <= 2 THEN 1 ELSE 0)

\* get_nfl_season_info: start month and day and number of weeks per season type
SeasonStart(season_type) ==
    CASE season_type = 1 -> [start_month |-> 8, start_day |-> 1, weeks |-> 4]
      [] season_type = 2 -> [start_month |-> 9, start_day |-> 8, weeks |-> 18]
      [] season_type = 3 -> [start_month |-> 1, start_day |-> 14, weeks |-> 4]

\* get_week_dates_for_season, in epoch seconds; NULL stands for ValueError
get_week_dates_for_season(year, season_type, week) ==
    IF season_type \notin {1, 2, 3} THEN NULL
    ELSE LET sd == SeasonStart(season_type)
             start_year == IF season_type = 3 THEN year + 1 ELSE year
             start_date == DaysFromCivil(start_year, sd.start_month, sd.start_day)
             week_start == start_date + 7 * (week - 1)
             week_end == week_start + 6
         IN Some(<<week_start * SecondsPerDay, week_end * SecondsPerDay>>)

\* A schedule payload of get_nfl_schedule: [kind |-> "error"] for a request
\* error ({}), or [kind |-> "data", events |-> sequence of events]; an event
\* is [id, week, type] where week and type are 0 when the feed omits them.
SchedEvent(id, week, type) == [id |-> id, week |-> week, type |-> type]

\* find_nfl_week_by_game_id: the first event of the schedule with this id
find_nfl_week_by_game_id(game_id, sched) ==
    IF sched.kind # "data" THEN NULL
    ELSE LET idx == {i \in 1..Len(sched.events) : sched.events[i].id = game_id}
         IN IF idx = {} THEN NULL
            ELSE Some(sched.events[CHOOSE i \in idx : \A j \in idx : i <= j])

\* get_week_boundary_by_game_id
get_week_boundary_by_game_id(game_id, year, sched) ==
    LET week_info == find_nfl_week_by_game_id(game_id, sched)
    IN IF week_info = NULL THEN NULL
       ELSE IF Val(week_info).week = 0 \/ Val(week_info).type = 0 THEN NULL
       ELSE get_week_dates_for_season(year, Val(week_info).type, Val(week_info).week)

\* a calendar week that starts on Monday
_get_calendar_week_boundary_monday(event_datetime) ==
    LET days == event_datetime \div SecondsPerDay
        weekday == (days + 3) % 7
        week_start == (days - weekday) * SecondsPerDay
        week_end == week_start + 6 * SecondsPerDay + 23 * 3600 + 59 * 60 + 59
    IN Some(<<week_start, week_end>>)

\* _get_calendar_week_boundary: Sunday 00:00:00 to Saturday 23:59:59
_get_calendar_week_boundary(event_datetime) ==
    LET days == event_datetime \div SecondsPerDay
        weekday == (days + 3) % 7
        days_since_sunday == IF weekday + 1 = 7 THEN 0 ELSE weekday + 1
        week_start == (days - days_since_sunday) * SecondsPerDay
        week_end == week_start + 6 * SecondsPerDay + 23 * 3600 + 59 * 60 + 59
    IN Some(<<week_start, week_end>>)

\* a resolver that falls back to the calendar week when the lookup fails
_get_nfl_week_boundary_fallback(event_datetime, game_id, sched) ==
    LET found == get_week_boundary_by_game_id(game_id, YearOf(event_datetime), sched)
    IN IF game_id = "" \/ found = NULL
       THEN _get_calendar_week_boundary(event_datetime)
       ELSE found

\* _get_nfl_week_boundary: the year is the calendar year of the event
_get_nfl_week_boundary(event_datetime, game_id, sched) ==
    IF game_id = "" THEN NULL
    ELSE get_week_boundary_by_game_id(game_id, YearOf(event_datetime), sched)

\* get_week_boundary and _get_football_week_boundary: sport and league are
\* compared lower-cased; NCAA football uses the calendar week
get_week_boundary(sport, league, event_datetime, game_id, sched) ==
    IF Lower(sport) = "football" /\ Lower(league) \in {"nfl", "ncaa"}
    THEN IF Lower(league) = "nfl"
         THEN _get_nfl_week_boundary(event_datetime, game_id, sched)
         ELSE _get_calendar_week_boundary(event_datetime)
    ELSE _get_calendar_week_boundary(event_datetime)

\* the get_nfl_schedule calls of get_week_boundary: one, made by
\* find_nfl_week_by_game_id, for an NFL game with an id
ScheduleCalls(sport, league, game_id) ==
    IF Lower(sport) = "football" /\ Lower(league) = "nfl" /\ game_id # "" THEN 1 ELSE 0

----------------------------------------------------------------------------
(* Reads *)

\* str in str on token sequences: sub occurs as a contiguous run of s
Contains(s, sub) ==
    \E i \in 0..(Len(s) - Len(sub)) : \A j \in 1..Len(sub) : s[i + j] = sub[j]

\* begins_with(SK, prefix)
BeginsWith(s, prefix) ==
    Len(prefix) <= Len(s) /\ \A j \in 1..Len(prefix) : s[j] = prefix[j]

\* a key lookup that ignores the event part of the sort key
get_bet_item_any_event(s, room_id, points_wagered, user_id, event_datetime) ==
    {i \in s : /\ i.PK = PK(room_id)
               /\ Len(i.SK) > Len(user_id) + 4
               /\ SubSeq(i.SK, 1, Len(user_id) + 4)
                    = SubSeq(SK(points_wagered, user_id, event_datetime),
                             1, Len(user_id) + 4)}

\* the get_item of get_bet
get_bet_item(s, room_id, points_wagered, user_id, event_datetime) ==
    GetItem(s, PK(room_id), SK(points_wagered, user_id, event_datetime))

\* the record a read hands on after check_and_grade_bet: the grader changes
\* the dictionary it was given in place, so it is the last record written,
\* or the record as read when nothing was written
RecordAfter(item, graded) ==
    IF graded.puts = <<>> THEN item ELSE graded.puts[Len(graded.puts)]

\* what get_bet reports: the table afterwards, whether an item was returned,
\* the get_event calls made (one more for the response overlay of
\* _enhance_bet_with_game_data, which writes nothing), the items written
ReadResult(s, item, graded) ==
    [store |-> ApplyPuts(s, graded.puts), found |-> TRUE,
     returned |-> {RecordAfter(item, graded)},
     feedCalls |-> graded.feedCalls + 1, gradeCalls |-> graded.feedCalls,
     writes |-> Len(graded.puts)]

\* get_bet on the item that was read
ReadItemFound(s, item, raw, t) == ReadResult(s, item, check_and_grade_bet(item, raw, t))

\* get_bet once the item is read
ReadItem(s, found, raw, t) ==
    IF found = {}
    THEN [store |-> s, found |-> FALSE, returned |-> {}, feedCalls |-> 0,
          gradeCalls |-> 0, writes |-> 0]
    ELSE ReadItemFound(s, CHOOSE i \in found : TRUE, raw, t)

\* a loop that gives up on every item when the grading of one item fails
GradeAllOrNone(items, feed, t) ==
    IF \E i \in items : /\ i.total_points_earned = NULL
                         /\ check_and_grade_bet(i, feed[i.game_id], t).ret = NULL
    THEN items
    ELSE {RecordAfter(i, check_and_grade_bet(i, feed[i.game_id], t)) : i \in items}

\* the loop of a list read: every queried item is graded in turn; feed maps
\* a game id to the payload the feed answers during the request
GradeEach(items, feed, t) ==
    {RecordAfter(i, check_and_grade_bet(i, feed[i.game_id], t)) : i \in items}

\* <<get_event calls of the grader, items written>> of the loop
RECURSIVE GradeCounts(_, _, _)
GradeCounts(items, feed, t) ==
    IF items = {} THEN <<0, 0>>
    ELSE LET i == CHOOSE j \in items : TRUE
             graded == check_and_grade_bet(i, feed[i.game_id], t)
             rest == GradeCounts(items \ {i}, feed, t)
         IN <<graded.feedCalls + rest[1], Len(graded.puts) + rest[2]>>

\* what a list read reports: the table afterwards and the records returned
ListResult(s, items, records, counts) ==
    [store |-> (s \ items) \cup records, returned |-> records,
     feedCalls |-> counts[1] + Cardinality(items), gradeCalls |-> counts[1],
     writes |-> counts[2]]

\* a list read over the queried items
ListRead(s, items, feed, t) ==
    ListResult(s, items, GradeEach(items, feed, t), GradeCounts(items, feed, t))

\* get_all_bets_for_room: begins_with(SK, "POINT#")
get_all_bets_for_room(s, room_id, feed, t) ==
    ListRead(s, {i \in s : i.PK = PK(room_id) /\ BeginsWith(i.SK, <<"POINT#">>)}, feed, t)

\* get_bets_by_point_value: begins_with(SK, "POINT#{points_wagered}#")
get_bets_by_point_value(s, room_id, points_wagered, feed, t) ==
    ListRead(s, {i \in s : /\ i.PK = PK(room_id)
                           /\ BeginsWith(i.SK, <<"POINT#", ToString(points_wagered)>>)},
             feed, t)

\* get_user_bets_for_room: the room's items whose SK contains USER#{user_id}
get_user_bets_for_room(s, room_id, user_id, feed, t) ==
    ListRead(s, {i \in s : /\ i.PK = PK(room_id)
                           /\ BeginsWith(i.SK, <<"POINT#">>)
                           /\ Contains(i.SK, <<"#USER#">> \o user_id)},
             feed, t)

\* get_bet on table s: raw answers the get_event calls
get_bet(s, room_id, points_wagered, user_id, event_datetime, raw, t) ==
    ReadItem(s, get_bet_item(s, room_id, points_wagered, user_id, event_datetime), raw, t)

----------------------------------------------------------------------------
(* Reads while table.put_item can fail *)

\* what the grader leaves when a write can raise: puts are the items
\* written, after is the caller's dictionary, which the grader changes in
\* place, raised tells whether its except branch was taken
Attempted(puts, after, raised) == [puts |-> puts, after |-> after, raised |-> raised]

\* _update_bet_result changes bet_data before its put_item, which raises
\* when result_ok is false
AttemptAfterPoints(with_status, points, t, result_ok) ==
    IF points = NULL THEN Attempted(<<with_status>>, with_status, FALSE)
    ELSE IF result_ok
    THEN Attempted(<<with_status, _update_bet_result(with_status, Val(points), t)>>,
                   _update_bet_result(with_status, Val(points), t), FALSE)
    ELSE Attempted(<<with_status>>, _update_bet_result(with_status, Val(points), t), TRUE)

\* the put_item of the status raises when status_ok is false
AttemptAfterStatus(with_status, game_data, t, status_ok, result_ok) ==
    IF ~status_ok THEN Attempted(<<>>, with_status, TRUE)
    ELSE IF ~is_final(game_data.status) THEN Attempted(<<with_status>>, with_status, FALSE)
    ELSE AttemptAfterPoints(with_status, points_earned(with_status, game_data), t, result_ok)

AttemptAfterFetch(bet_data, game_data, t, status_ok, result_ok) ==
    IF game_data.kind # "data" THEN Attempted(<<>>, bet_data, game_data.kind = "raise")
    ELSE AttemptAfterStatus(WithStatus(bet_data, game_data.status), game_data, t,
                            status_ok, result_ok)

\* check_and_grade_bet with the outcome of its two writes
check_and_grade_bet_attempt(bet_data, raw, t, status_ok, result_ok) ==
    IF bet_data.total_points_earned # NULL THEN Attempted(<<>>, bet_data, FALSE)
    ELSE AttemptAfterFetch(bet_data, get_event(raw), t, status_ok, result_ok)

\* get_bet on the item that was read: the dictionary goes on to the
\* response whether the grader returned it or None
ReadAttempt(s, item, a) ==
    [store |-> ApplyPuts(s, a.puts), outcome |-> "",
     log |-> IF a.raised THEN "error: grading bet" ELSE "", boundary |-> NULL,
     returned |-> {a.after},
     feedCalls |-> (IF item.total_points_earned = NULL THEN 2 ELSE 1),
     gradeCalls |-> (IF item.total_points_earned = NULL THEN 1 ELSE 0),
     writes |-> Len(a.puts)]

\* get_bet of a stored item with the outcome of the grader's writes
get_bet_attempt(s, item, raw, t, status_ok, result_ok) ==
    ReadAttempt(s, item, check_and_grade_bet_attempt(item, raw, t, status_ok, result_ok))

----------------------------------------------------------------------------
(* The response overlay and the administrative operations *)

\* a dictionary with one more key, or with the key replaced
WithField(d, key, v) == [k \in DOMAIN d \cup {key} |-> IF k = key THEN v ELSE d[k]]

\* bet_data["game_status"]: the status and the team_info of the last
\* competitor of either designation (of team_info the score is kept)
GameStatus(game_data, game_id) ==
    [status |-> [name |-> game_data.status.name, state |-> game_data.status.state,
                 detail |-> game_data.status.detail,
                 completed |-> game_data.status.completed],
     home_team |-> ScoreOf(game_data.competitors, "home"),
     away_team |-> ScoreOf(game_data.competitors, "away"),
     game_id |-> game_id]

\* the overlay once the event is fetched: the dictionary is returned as it
\* is when get_event returned {} or raised, or a score is not a number
EnhanceWith(bet_data, game_data) ==
    IF game_data.kind # "data" THEN bet_data
    ELSE IF ~ScoresParse(game_data.competitors) THEN bet_data
    ELSE WithField(bet_data, "game_status", GameStatus(game_data, bet_data.game_id))

\* _enhance_bet_with_game_data: raw answers its get_event call
_enhance_bet_with_game_data(bet_data, raw) ==
    IF bet_data.game_id = "" \/ bet_data.sport = "" \/ bet_data.league = "" THEN bet_data
    ELSE EnhanceWith(bet_data, get_event(raw))

\* the dictionaries a read returns: each record with its overlay; overlay
\* maps a game id to the payload that answers the overlay's get_event call
EnhanceEach(records, overlay) ==
    {_enhance_bet_with_game_data(b, overlay[b.game_id]) : b \in records}

\* put_item of each of the dictionaries, which have different keys
PutEach(s, items) ==
    {i \in s : \A j \in items : ~(i.PK = j.PK /\ i.SK = j.SK)} \cup items

\* a reset that leaves the total
KeepTotal(bet) == bet

\* bet["total_points_earned"] = None
ResetTotal(bet) == [bet EXCEPT !.total_points_earned = NULL]

\* what an administrative operation reports
Administered(r, s, puts) ==
    [store |-> s, outcome |-> "", log |-> "", boundary |-> NULL, returned |-> {},
     found |-> r.returned # {}, feedCalls |-> r.feedCalls, gradeCalls |-> r.gradeCalls,
     writes |-> r.writes + puts]

\* the loop of the reset: each dictionary is written whole
ResetEach(r, bets) ==
    Administered(r, PutEach(r.store, {ResetTotal(b) : b \in bets}), Cardinality(bets))

\* a reset after the read r
ResetAfterRead(r, overlay) == ResetEach(r, EnhanceEach(r.returned, overlay))

\* reset_bet: get_bet, then the put_item of the returned dictionary; nothing
\* is written when get_bet returned None
reset_bet(s, room_id, points_wagered, user_id, event_datetime, raw, overlay, t) ==
    ResetAfterRead(get_bet(s, room_id, points_wagered, user_id, event_datetime, raw, t),
                   overlay)

\* reset_bets_for_room: get_all_bets_for_room, then the put_item of each
reset_bets_for_room(s, room_id, feed, overlay, t) ==
    ResetAfterRead(get_all_bets_for_room(s, room_id, feed, t), overlay)

\* the loop of assign_bet_uuids: a dictionary without bet_uuid gets one and
\* is written whole
AssignEach(r, bets, uuid) ==
    Administered(r, PutEach(r.store, {WithField(b, "bet_uuid", uuid) : b \in bets}),
                 Cardinality(bets))

\* an assignment after the read r
AssignAfterRead(r, overlay, uuid) ==
    AssignEach(r, {b \in EnhanceEach(r.returned, overlay) : "bet_uuid" \notin DOMAIN b}, uuid)

\* assign_bet_uuids: uuid is the value uuid4 draws
assign_bet_uuids(s, room_id, feed, overlay, uuid, t) ==
    AssignAfterRead(get_all_bets_for_room(s, room_id, feed, t), overlay, uuid)

----------------------------------------------------------------------------
(* Creation: the duplicate and week-boundary validator *)

\* DuplicateBetException.__init__(self, room_id, user_id, points_wagered)
DuplicateBetExceptionArity == 3

\* a constructor that takes the message only
RaiseDuplicateBetMessage(nargs) ==
    IF nargs = 1 THEN "DuplicateBetException" ELSE "TypeError"

\* raise DuplicateBetException(*args): the exception that propagates
RaiseDuplicateBet(nargs) ==
    IF nargs = DuplicateBetExceptionArity THEN "DuplicateBetException" ELSE "TypeError"

\* the week query of validate_week_boundary_bet: items of the room whose SK
\* contains POINT#{points}#USER#{user} and whose event is in the boundary
WeekQuery(s, room_id, user_id, points_wagered, week_start, week_end) ==
    {i \in s : /\ i.PK = PK(room_id)
               /\ Contains(i.SK, <<"POINT#", ToString(points_wagered), "#USER#">> \o user_id)
               /\ week_start <= i.event_datetime
               /\ i.event_datetime <= week_end}

\* what the validator reports: raised is the exception leaving the function
\* ("" when it returns True), log the message it records
Validated(raised, log, boundary) == [raised |-> raised, log |-> log, boundary |-> boundary]

\* the raise inside the try block: a DuplicateBetException is re-raised, any
\* other exception is logged and the validator returns True
RaiseInValidator(exc, week_boundary) ==
    IF exc = "DuplicateBetException"
    THEN Validated(exc, "warning: already has a bet this week", week_boundary)
    ELSE Validated("", "error: validating week boundary bet", week_boundary)

\* the validator once the boundary is resolved
ValidateInWeek(s, room_id, user_id, points_wagered, week_boundary) ==
    IF week_boundary = NULL
    THEN Validated("", "warning: no week boundary, allowing bet", week_boundary)
    ELSE IF WeekQuery(s, room_id, user_id, points_wagered,
                      Val(week_boundary)[1], Val(week_boundary)[2]) # {}
    THEN RaiseInValidator(RaiseDuplicateBet(1), week_boundary)
    ELSE Validated("", "info: validation passed", week_boundary)

\* validate_week_boundary_bet on table s with the schedule payload sched
validate_week_boundary_bet(s, bet, sched) ==
    ValidateInWeek(s, bet.room_id, bet.user_id, bet.points_wagered,
                   get_week_boundary(bet.sport, bet.league, bet.event_datetime,
                                     bet.game_id, sched))

\* a game-id query that reads the one-point bets only
get_user_game_ids_for_one_point(s, room_id, user_id) ==
    {i.game_id : i \in {j \in s : /\ j.PK = PK(room_id)
                                  /\ BeginsWith(j.SK, <<"POINT#", "1">>)
                                  /\ Contains(j.SK, <<"#USER#">> \o user_id)}}

\* get_user_game_ids_for_room
get_user_game_ids_for_room(s, room_id, user_id) ==
    {i.game_id : i \in {j \in s : /\ j.PK = PK(room_id)
                                  /\ BeginsWith(j.SK, <<"POINT#">>)
                                  /\ Contains(j.SK, <<"#USER#">> \o user_id)}}

\* what create_bet reports
Created(s, outcome, v, feedCalls, writes) ==
    [store |-> s, outcome |-> outcome, log |-> v.log, boundary |-> v.boundary,
     returned |-> {}, feedCalls |-> feedCalls, writes |-> writes]

\* a create_bet that writes the item before the game check
CreateAfterValidateStoring(s, bet, v) ==
    IF v.raised # "" THEN Created(s, v.raised, v, 0, 0)
    ELSE IF bet.game_id \in get_user_game_ids_for_room(s, bet.room_id, bet.user_id)
    THEN Created(PutItem(s, bet), "DuplicateGameException", v, 0, 1)
    ELSE Created(PutItem(s, bet), "created", v, 0, 1)

\* create_bet after the validator: the game check and the put_item
CreateAfterValidate(s, bet, v) ==
    IF v.raised # "" THEN Created(s, v.raised, v, 0, 0)
    ELSE IF bet.game_id \in get_user_game_ids_for_room(s, bet.room_id, bet.user_id)
    THEN Created(s, "DuplicateGameException", v, 0, 0)
    ELSE Created(PutItem(s, bet), "created", v, 0, 1)

\* create_bet after the exact-key read
CreateAfterRead(bet, read, sched) ==
    IF read.found
    THEN Created(read.store, RaiseDuplicateBet(3), Validated("", "", NULL),
                 read.feedCalls, read.writes)
    ELSE CreateAfterValidate(read.store, bet,
                             validate_week_boundary_bet(read.store, bet, sched))

\* BetHelper.create_bet(bet) on table s; raw answers the get_event calls of
\* the exact-key read, sched the schedule lookup, t is the clock
create_bet(s, bet, raw, sched, t) ==
    CreateAfterRead(bet, get_bet(s, bet.room_id, bet.points_wagered, bet.user_id,
                                 bet.event_datetime, raw, t), sched)

----------------------------------------------------------------------------
(* The endpoints *)

\* allowed_statuses of the create endpoint
AllowedStatuses == {"STATUS_SCHEDULED", "SCHEDULED", "PRE"}

\* what an endpoint reports when it fails before the helper is called
Failed(s, outcome, feedCalls) == Created(s, outcome, Validated("", "", NULL), feedCalls, 0)

\* the helper's report with the endpoint's own get_event call counted
AfterStatusCheck(r) == [r EXCEPT !.feedCalls = @ + 1]

\* a create endpoint without the status test
CreateAfterEventAnyStatus(s, bet, event_data, raw, sched, t) ==
    IF event_data.kind = "raise" THEN Failed(s, "IndexError", 1)
    ELSE IF event_data.kind = "empty" THEN Failed(s, "GameDataNotFoundException", 1)
    ELSE AfterStatusCheck(create_bet(s, bet, raw, sched, t))

\* the create endpoint once the event is fetched: get_event raised, returned
\* {} or returned an event whose upper-cased status name is tested
CreateAfterEvent(s, bet, event_data, raw, sched, t) ==
    IF event_data.kind = "raise" THEN Failed(s, "IndexError", 1)
    ELSE IF event_data.kind = "empty" THEN Failed(s, "GameDataNotFoundException", 1)
    ELSE IF Upper(event_data.status.name) \notin AllowedStatuses
    THEN Failed(s, "InvalidGameStatusException", 1)
    ELSE AfterStatusCheck(create_bet(s, bet, raw, sched, t))

\* POST /create: membership is "unauthenticated" (no user token), "none",
\* "inactive" or "active"; status_raw answers the endpoint's get_event call,
\* raw those of the helper
create_bet_endpoint(s, membership, bet, status_raw, raw, sched, t) ==
    IF membership = "unauthenticated" THEN Failed(s, "401", 0)
    ELSE IF membership # "active" THEN Failed(s, "403", 0)
    ELSE CreateAfterEvent(s, bet, get_event(status_raw), raw, sched, t)

\* game_started_statuses of the room endpoint
StartedStatuses ==
    {"STATUS_IN_PROGRESS", "IN_PROGRESS", "LIVE", "STATUS_FINAL", "FINAL", "COMPLETED"}

\* BetModel(**bet_item).dict(): the fields of the model; PK, SK, graded_at
\* and the overlay are no fields of it
BetDict(b) ==
    [room_id |-> b.room_id, points_wagered |-> b.points_wagered, user_id |-> b.user_id,
     event_datetime |-> b.event_datetime, game_id |-> b.game_id, sport |-> b.sport,
     league |-> b.league, game_bet |-> Some(b.game_bet),
     total_points_earned |-> b.total_points_earned,
     odds_snapshot |-> b.odds_snapshot]

\* odds_snapshot = {}
EmptySnapshot == [spreadDetails |-> NULL, status |-> NULL]

\* partial details that keep the total
HiddenButTotal(d) == [d EXCEPT !.game_bet = NULL, !.odds_snapshot = EmptySnapshot]

\* the partial details of a bet
Hidden(d) ==
    [d EXCEPT !.game_bet = NULL, !.total_points_earned = NULL,
              !.odds_snapshot = EmptySnapshot]

\* another user's bet once its event is fetched: skipped when get_event
\* raised, hidden without data or before the game has started
ProcessOther(d, event_data) ==
    IF event_data.kind = "raise" THEN {}
    ELSE IF event_data.kind = "empty" THEN {Hidden(d)}
    ELSE IF Upper(event_data.status.name) \in StartedStatuses THEN {d}
    ELSE {Hidden(d)}

\* one pass of the loop over room_bets
ProcessBet(b, user_id, status_raw) ==
    IF b.user_id = user_id THEN {BetDict(b)}
    ELSE ProcessOther(BetDict(b), get_event(status_raw))

\* what the room endpoint reports: the HTTP status as outcome and the bets
\* of the response as returned
RoomResponse(r, outcome, bets, statusCalls) ==
    [store |-> r.store, outcome |-> outcome, log |-> "", boundary |-> NULL,
     returned |-> bets, feedCalls |-> r.feedCalls + statusCalls,
     gradeCalls |-> r.gradeCalls, writes |-> r.writes]

\* the room endpoint after get_all_bets_for_room: a missing user profile
\* ends the request with 500
ProcessRoomBets(r, user_id, profiles, status_feed) ==
    IF r.returned = {} THEN RoomResponse(r, "200", {}, 0)
    ELSE IF ~profiles THEN RoomResponse(r, "500", {}, 0)
    ELSE RoomResponse(r, "200",
                      UNION {ProcessBet(b, user_id, status_feed[b.game_id]) :
                                b \in r.returned},
                      Cardinality({b \in r.returned : b.user_id # user_id}))

\* GET bets of a room for the requester user_id; feed answers the get_event
\* calls of the helper, status_feed those of the endpoint
get_bets_for_room(s, room_id, user_id, profiles, feed, status_feed, t) ==
    ProcessRoomBets(get_all_bets_for_room(s, room_id, feed, t), user_id, profiles,
                    status_feed)

----------------------------------------------------------------------------
(* The catalogue of requests and feed payloads *)

Rooms == {"r1"}
Users == {<<"a">>}
Wagers == {1, 2}

Fixture(sport, league, game_id, event_datetime) ==
    [sport |-> sport, league |-> league, game_id |-> game_id,
     event_datetime |-> event_datetime]

\* Mon 2025-11-03 19:00 and Tue 2025-11-11 19:00 lie in consecutive calendar
\* weeks; Thu 2025-09-11 20:00 and Sat 2025-09-13 18:00 are the two games
\* the season schedule lists in week 1 of the regular season
FxA1 == Fixture("basketball", "nba", "g1", 1762196400)
FxB == Fixture("basketball", "nba", "g2", 1762887600)
FxN1 == Fixture("football", "nfl", "g4", 1757620800)
FxN2 == Fixture("football", "nfl", "g5", 1757786400)

Fixtures == {FxA1, FxB, FxN1, FxN2}
Games == {fx.game_id : fx \in Fixtures}

SchedError == [kind |-> "error", events |-> <<>>]
SchedEmpty == [kind |-> "data", events |-> <<>>]
SchedPartial == [kind |-> "data", events |-> <<SchedEvent("g4", 1, 2)>>]
SchedFull == [kind |-> "data",
              events |-> <<SchedEvent("g4", 1, 2), SchedEvent("g5", 1, 2)>>]
Schedules == {SchedError, SchedEmpty, SchedPartial, SchedFull}

TypeScheduled == RawType("STATUS_SCHEDULED", "pre", FALSE, "Sun 1:00 PM")
TypeScheduledCompleted == RawType("STATUS_SCHEDULED", "pre", TRUE, "Sun 1:00 PM")
TypeFinal == RawType("STATUS_FINAL", "post", TRUE, "Final")

HomeAway(h, a) == <<RawComp("home", h), RawComp("away", a)>>
AwayHome(h, a) == <<RawComp("away", a), RawComp("home", h)>>

RawScheduled == RawEvent(TypeScheduled, HomeAway(Absent, Absent))
RawScheduledCompleted == RawEvent(TypeScheduledCompleted, HomeAway(Num(24), Num(20)))
RawFinal(h, a) == RawEvent(TypeFinal, HomeAway(Num(h), Num(a)))
RawFinalAwayFirst(h, a) == RawEvent(TypeFinal, AwayHome(Num(h), Num(a)))

\* a final answer whose home score is not a number
RawFinalNoScore == RawEvent(TypeFinal, HomeAway(Bad, Num(20)))

\* answers that vary the four status fields separately, with both scores
SignalResponses ==
    {RawEvent(RawType(name, state, completed, detail), HomeAway(Num(24), Num(20))) :
        name \in {"STATUS_SCHEDULED", "STATUS_IN_PROGRESS", "STATUS_FINAL", "Final"},
        state \in {"in", "post"},
        completed \in BOOLEAN,
        detail \in {"", "Final", "FINAL", "Final/OT"}}

\* a final answer that lists one competitor
RawOneCompetitor == RawEvent(TypeFinal, <<RawComp("home", Num(24))>>)

\* the answers to the exact-key read of a resubmission
ResubmitResponses == {RawError, RawScheduled, RawFinal(24, 20)}

\* an answer before the game with the given status name
RawNamed(name) ==
    RawEvent(RawType(name, "pre", FALSE, "Sun 1:00 PM"), HomeAway(Absent, Absent))

\* the answers to the status check of the create endpoint
StatusResponses ==
    {RawError, RawEmpty, RawOneCompetitor}
    \cup {RawNamed(name) : name \in {"STATUS_SCHEDULED", "SCHEDULED", "PRE", "pre",
                                       "STATUS_IN_PROGRESS"}}

Memberships == {"unauthenticated", "none", "inactive", "active"}

FeedResponses ==
    {RawError, RawEmpty, RawOneCompetitor, RawScheduled, RawScheduledCompleted,
     RawFinal(24, 20), RawFinalNoScore}

FinalResponses ==
    {RawFinal(24, 20), RawFinalAwayFirst(24, 20), RawFinal(23, 20), RawFinal(24, 22),
     RawFinal(20, 24)}

\* odds_snapshot.spreadDetails as "TEAM line": two tokens
SpreadDetails(line) == <<<<"word", 0>>, <<"num", line>>>>

OverUnderBet(choice, total) == GameBet("over_under", "none", NULL, choice, Some(total))
SpreadBet(team, line) == GameBet("spread", team, Some(line), "none", NULL)

\* the bet submitted in the creation runs: over 45.5
OverBet == OverUnderBet("over", 91)
UnderBet == OverUnderBet("under", 91)

CreateRequests ==
    {BetItem(room_id, points_wagered, user_id, fx, OverBet, NULL) :
        room_id \in Rooms, points_wagered \in Wagers, user_id \in Users, fx \in Fixtures}

\* the answers to the status check of the room endpoint
RoomResponses ==
    {RawError, RawOneCompetitor, RawScheduled, RawNamed("STATUS_IN_PROGRESS"),
     RawNamed("Final"), RawFinal(24, 20)}

\* a room with a bet of user a and a bet of user b on the same game
RoomStores ==
    {{BetItem("r1", 1, <<"a">>, FxA1, OverBet, NULL),
      BetItem("r1", 1, <<"b">>, FxA1, game_bet, NULL)} : game_bet \in {OverBet, UnderBet}}
    \cup {{BetItem("r1", 1, <<"a">>, FxA1, OverBet, NULL),
            BetItem("r1", 1, <<"b">>, FxA1, SpreadBet(team, -7), SpreadDetails(-7))} :
               team \in {"home", "away"}}

\* the bets submitted to the create endpoint
EndpointRequests ==
    {BetItem("r1", w, <<"a">>, fx, OverBet, NULL) : w \in Wagers, fx \in {FxA1, FxB}}

\* the stored bets of the read runs: over 45.5 and home -3.5
ReadBets ==
    {BetItem("r1", 1, <<"a">>, FxA1, OverBet, NULL),
     BetItem("r1", 2, <<"a">>, FxA1, SpreadBet("home", -7), SpreadDetails(-7)),
     BetItem("r1", 1, <<"a">>, FxA1, SpreadBet("home", -7), NULL)}

\* the stored bets of the grading runs: lines -3.5, -3 and +3 on either
\* team, a spread bet without a snapshot line, totals 45.5 and 44
SpreadLines == {-7, -6, 6}
TotalLines == {91, 88}

GradeBets ==
    {BetItem("r1", w, <<"a">>, FxA1, SpreadBet(team, line), SpreadDetails(line)) :
        w \in Wagers, team \in {"home", "away"}, line \in SpreadLines}
    \cup {BetItem("r1", w, <<"a">>, FxA1, SpreadBet("home", -7), NULL) : w \in Wagers}
    \cup {BetItem("r1", w, <<"a">>, FxA1, OverUnderBet(choice, total), NULL) :
            w \in Wagers, choice \in {"over", "under"}, total \in TotalLines}

\* the two bets that race for one key
RaceBets ==
    {BetItem("r1", 1, <<"a">>, FxA1, OverBet, NULL),
     BetItem("r1", 1, <<"a">>, FxA1, UnderBet, NULL)}

----------------------------------------------------------------------------
(* State *)

\* what the feed has answered for a game: "quiet" while every answer named
\* STATUS_SCHEDULED and carried no other sign of a finished game, "sched"
\* while every answer named STATUS_SCHEDULED, "other" afterwards
HistOf(h, st) ==
    IF h = "other" \/ st.name # "STATUS_SCHEDULED" THEN "other"
    ELSE IF h = "sched" \/ st.state = "post" \/ st.completed
            \/ Lower(st.detail) = "final" THEN "sched"
    ELSE "quiet"

HistAfterEvent(h, game_data) ==
    IF game_data.kind # "data" THEN h ELSE HistOf(h, game_data.status)

HistAfter(h, raw) == HistAfterEvent(h, get_event(raw))

\* the feed does not take a final back: after an answer that did not name
\* STATUS_SCHEDULED the concurrent runs see final answers only
FeedAfter(h) ==
    IF h = "other" THEN {RawFinal(24, 20)} ELSE {RawScheduled, RawFinal(24, 20)}

NoRequest == [room_id |-> "", points_wagered |-> 0, user_id |-> <<>>,
              event_datetime |-> 0, game_id |-> "", sport |-> "", league |-> ""]

\* lastOp: req is the request (the submitted bet, or the record read),
\* outcome what the handler returned or raised, log the validator's message,
\* boundary the resolved week, sched and raw the payloads the feed answered,
\* feedCalls the get_event calls, gradeCalls those of check_and_grade_bet,
\* returned the records a read hands back; a list read has the room (and
\* the wager or the user it asks for) as req and the feed's answers by game
\* as raw
Op(op, req, r, sched, raw, feedCalls, gradeCalls, writes) ==
    [op |-> op, req |-> req, outcome |-> r.outcome, log |-> r.log,
     boundary |-> r.boundary, returned |-> r.returned, sched |-> sched, raw |-> raw, feedCalls |-> feedCalls,
     gradeCalls |-> gradeCalls, writes |-> writes]

\* a read returns its records and raises nothing
Read(returned) == [outcome |-> "", log |-> "", boundary |-> NULL, returned |-> returned]

NoOutcome == Read({})

NoOp == Op("none", NoRequest, NoOutcome, SchedError, RawError, 0, 0, 0)

Init ==
    /\ store = {}
    /\ now = 1
    /\ hist = [g \in Games |-> "quiet"]
    /\ lastOp = NoOp
    /\ procs = <<>>

\* a table that holds one of the given bets, created and not yet read
InitWith(bets) ==
    /\ store \in {{b} : b \in bets}
    /\ now = 1
    /\ hist = [g \in Games |-> "quiet"]
    /\ lastOp = NoOp
    /\ procs = <<>>

\* the payloads a call can receive: the schedule is fetched for NFL bets only
SchedulesFor(bet) ==
    IF bet.sport = "football" /\ bet.league = "nfl" THEN Schedules ELSE {SchedError}

\* the schedule payloads tried on a resubmission: an error, a schedule
\* without the game and the full schedule
ResubmitSchedules == {SchedError, SchedEmpty, SchedFull}

----------------------------------------------------------------------------
(* Handlers run one at a time *)

\* BetHelper.create_bet for a key that is not stored: no event is fetched
CreateBet(bet, sched) ==
    /\ GetItem(store, bet.PK, bet.SK) = {}
    /\ \E r \in {create_bet(store, bet, RawError, sched, now)} :
           /\ Cardinality(r.store) <= MaxBets
           /\ store' = r.store
           /\ lastOp' = Op("create_bet", bet, r, sched, RawError, r.feedCalls, 0, r.writes)
    /\ UNCHANGED <<now, hist, procs>>

\* BetHelper.create_bet for a stored key: the exact-key read fetches the event
ResubmitBet(bet, raw, sched) ==
    /\ GetItem(store, bet.PK, bet.SK) # {}
    /\ \E r \in {create_bet(store, bet, raw, sched, now)} :
           /\ store' = r.store
           /\ lastOp' = Op("create_bet", bet, r, sched, raw, r.feedCalls, 0, r.writes)
    /\ hist' = [hist EXCEPT ![bet.game_id] = HistAfter(@, raw)]
    /\ UNCHANGED <<now, procs>>

\* BetHelper.get_bet of a stored record
GetBet(item, raw) ==
    /\ item \in store
    /\ \E r \in {get_bet(store, item.room_id, item.points_wagered, item.user_id,
                         item.event_datetime, raw, now)} :
           /\ store' = r.store
           /\ lastOp' = Op("get_bet", item, Read(r.returned), SchedError, raw, r.feedCalls,
                           r.gradeCalls, r.writes)
    /\ hist' = [hist EXCEPT ![item.game_id] = HistAfter(@, raw)]
    /\ UNCHANGED <<now, procs>>

\* BetHelper.check_and_grade_bet on a stored record, as the list reads call it
CheckAndGradeBet(item, raw) ==
    /\ item \in store
    /\ \E r \in {check_and_grade_bet(item, raw, now)} :
           /\ store' = ApplyPuts(store, r.puts)
           /\ lastOp' = Op("check_and_grade_bet", item, Read({RecordAfter(item, r)}),
                           SchedError, raw,
                           r.feedCalls, r.feedCalls, Len(r.puts))
           /\ hist' = IF r.feedCalls = 0 THEN hist
                      ELSE [hist EXCEPT ![item.game_id] = HistAfter(@, raw)]
    /\ UNCHANGED <<now, procs>>

\* the request of a list read
ListRequest(room_id, points_wagered, user_id) ==
    [NoRequest EXCEPT !.room_id = room_id, !.points_wagered = points_wagered,
                      !.user_id = user_id]

\* the feed answers the same payload for every game during one request
Feeds(responses) == {[g \in Games |-> raw] : raw \in responses}

\* what a list read leaves behind: every returned record had its event
\* fetched for the overlay even when the grader had nothing to fetch
AfterListRead(op, req, feed, r) ==
    /\ store' = r.store
    /\ lastOp' = Op(op, req, Read(r.returned), SchedError, feed, r.feedCalls,
                    r.gradeCalls, r.writes)
    /\ hist' = [g \in Games |->
                  IF \E i \in r.returned : i.game_id = g
                  THEN HistAfter(hist[g], feed[g]) ELSE hist[g]]
    /\ UNCHANGED <<now, procs>>

\* BetHelper.get_all_bets_for_room
GetAllBetsForRoom(room_id, feed) ==
    AfterListRead("get_all_bets_for_room", ListRequest(room_id, 0, <<>>), feed,
                  get_all_bets_for_room(store, room_id, feed, now))

\* BetHelper.get_bets_by_point_value
GetBetsByPointValue(room_id, points_wagered, feed) ==
    AfterListRead("get_bets_by_point_value", ListRequest(room_id, points_wagered, <<>>),
                  feed, get_bets_by_point_value(store, room_id, points_wagered, feed, now))

\* BetHelper.get_user_bets_for_room
GetUserBetsForRoom(room_id, user_id, feed) ==
    AfterListRead("get_user_bets_for_room", ListRequest(room_id, 0, user_id), feed,
                  get_user_bets_for_room(store, room_id, user_id, feed, now))

\* datetime.now() advances
Tick ==
    /\ now < MaxClock
    /\ now' = now + 1
    /\ UNCHANGED <<store, hist, lastOp, procs>>

NextCreate ==
    \E bet \in CreateRequests :
        \/ \E sched \in SchedulesFor(bet) : CreateBet(bet, sched)
        \/ \E raw \in ResubmitResponses, sched \in SchedulesFor(bet) \cap ResubmitSchedules :
               ResubmitBet(bet, raw, sched)

Spec == Init /\ [][NextCreate]_vars

NextRead ==
    \/ \E item \in store, raw \in FeedResponses : GetBet(item, raw)
    \/ \E item \in store, raw \in FeedResponses : CheckAndGradeBet(item, raw)
    \/ \E room_id \in Rooms, feed \in Feeds(FeedResponses) :
           GetAllBetsForRoom(room_id, feed)
    \/ \E room_id \in Rooms, points_wagered \in Wagers, feed \in Feeds(FeedResponses) :
           GetBetsByPointValue(room_id, points_wagered, feed)
    \/ \E room_id \in Rooms, user_id \in Users, feed \in Feeds(FeedResponses) :
           GetUserBetsForRoom(room_id, user_id, feed)
    \/ Tick

SpecRead == InitWith(ReadBets) /\ [][NextRead]_vars

\* POST /create
CreateBetEndpoint(membership, bet, status_raw, raw, sched) ==
    /\ \E r \in {create_bet_endpoint(store, membership, bet, status_raw, raw, sched, now)} :
           /\ Cardinality(r.store) <= MaxBets
           /\ store' = r.store
           /\ lastOp' = Op("create_bet_endpoint", bet, r, sched, status_raw, r.feedCalls,
                           0, r.writes)
           /\ hist' = [hist EXCEPT ![bet.game_id] =
                          IF r.feedCalls = 0 THEN @
                          ELSE IF r.feedCalls = 1 THEN HistAfter(@, status_raw)
                          ELSE HistAfter(HistAfter(@, status_raw), raw)]
    /\ UNCHANGED <<now, procs>>

\* a request that is refused makes no feed call, one that is admitted
\* meets the answers of the feed
NextEndpoint ==
    \E bet \in EndpointRequests :
        \/ \E membership \in Memberships \ {"active"} :
               CreateBetEndpoint(membership, bet, RawError, RawError, SchedError)
        \/ \E status_raw \in StatusResponses, raw \in FeedAfter("quiet") :
               \E sched \in SchedulesFor(bet) :
                   CreateBetEndpoint("active", bet, status_raw, raw, sched)

SpecEndpoint == Init /\ [][NextEndpoint]_vars

\* GET bets of a room
GetBetsForRoom(room_id, user_id, profiles, feed, status_feed) ==
    /\ \E r \in {get_bets_for_room(store, room_id, user_id, profiles, feed, status_feed,
                                    now)} :
           /\ store' = r.store
           /\ lastOp' = Op("get_bets_for_room", ListRequest(room_id, 0, user_id), r,
                           SchedError, [helper |-> feed, endpoint |-> status_feed],
                           r.feedCalls, r.gradeCalls, r.writes)
           /\ hist' = [g \in Games |->
                         IF \A i \in r.store : i.game_id # g THEN hist[g]
                         ELSE IF r.outcome = "200"
                                 /\ \E i \in r.store : i.game_id = g /\ i.user_id # user_id
                         THEN HistAfter(HistAfter(hist[g], feed[g]), status_feed[g])
                         ELSE HistAfter(hist[g], feed[g])]
    /\ UNCHANGED <<now, procs>>

NextRoom ==
    \E room_id \in Rooms, user_id \in {<<"a">>, <<"b">>}, profiles \in BOOLEAN,
       feed \in Feeds(FeedAfter("quiet")), status_feed \in Feeds(RoomResponses) :
        GetBetsForRoom(room_id, user_id, profiles, feed, status_feed)

SpecRoom ==
    /\ store \in RoomStores
    /\ now = 1
    /\ hist = [g \in Games |-> "quiet"]
    /\ lastOp = NoOp
    /\ procs = <<>>
    /\ [][NextRoom]_vars

NextFinal == \E item \in store, raw \in SignalResponses : GetBet(item, raw)

SpecFinal == InitWith({BetItem("r1", 1, <<"a">>, FxA1, OverBet, NULL)}) /\ [][NextFinal]_vars

NextGrade == \E item \in store, raw \in FinalResponses : GetBet(item, raw)

SpecGrade == InitWith(GradeBets) /\ [][NextGrade]_vars

\* the request of an operation on one key
KeyRequest(room_id, points_wagered, user_id, event_datetime) ==
    [NoRequest EXCEPT !.room_id = room_id, !.points_wagered = points_wagered,
                      !.user_id = user_id, !.event_datetime = event_datetime]

\* what an administrative operation leaves behind; the grader's call and
\* the overlay's call are answered in this order
AfterAdministration(op, req, feed, overlay, r) ==
    /\ store' = r.store
    /\ lastOp' = Op(op, req, r, SchedError, [helper |-> feed, endpoint |-> overlay],
                    r.feedCalls, r.gradeCalls, r.writes)
    /\ hist' = [g \in Games |->
                  IF \E i \in r.store :
                        /\ i.game_id = g
                        /\ i.room_id = req.room_id
                        /\ op = "reset_bet" => i.event_datetime = req.event_datetime
                  THEN HistAfter(HistAfter(hist[g], feed[g]), overlay[g]) ELSE hist[g]]
    /\ UNCHANGED <<now, procs>>

\* BetHelper.reset_bet, as the reset-bet command of ops/reset_bets.py calls it
ResetBet(key, feed, overlay) ==
    AfterAdministration("reset_bet",
                        KeyRequest(key.room_id, key.points_wagered, key.user_id,
                                   key.event_datetime),
                        feed, overlay,
                        reset_bet(store, key.room_id, key.points_wagered, key.user_id,
                                  key.event_datetime, feed[key.game_id], overlay, now))

\* BetHelper.reset_bets_for_room, the reset-room command
ResetBetsForRoom(room_id, feed, overlay) ==
    AfterAdministration("reset_bets_for_room", ListRequest(room_id, 0, <<>>), feed, overlay,
                        reset_bets_for_room(store, room_id, feed, overlay, now))

\* BetHelper.assign_bet_uuids
AssignBetUuids(room_id, feed, overlay, uuid) ==
    AfterAdministration("assign_bet_uuids", ListRequest(room_id, 0, <<>>), feed, overlay,
                        assign_bet_uuids(store, room_id, feed, overlay, uuid, now))

\* the answers of the feed in the runs with resets: the final score of a
\* game does not change
ResetResponses == {RawError, RawScheduled, RawFinal(24, 20)}

\* the stored bets of these runs: an over and an under at 45.5, home -3.5
ResetBets ==
    {BetItem("r1", 1, <<"a">>, FxA1, OverBet, NULL),
     BetItem("r1", 1, <<"a">>, FxB, UnderBet, NULL),
     BetItem("r1", 2, <<"a">>, FxA1, SpreadBet("home", -7), SpreadDetails(-7))}

NextReset ==
    \/ \E item \in store, raw \in ResetResponses : GetBet(item, raw)
    \/ \E room_id \in Rooms, feed \in Feeds(ResetResponses) :
           GetAllBetsForRoom(room_id, feed)
    \/ \E key \in ResetBets, feed \in Feeds(ResetResponses),
          overlay \in Feeds(ResetResponses) : ResetBet(key, feed, overlay)
    \/ \E room_id \in Rooms, feed \in Feeds(ResetResponses),
          overlay \in Feeds(ResetResponses) : ResetBetsForRoom(room_id, feed, overlay)
    \/ \E room_id \in Rooms, feed \in Feeds(ResetResponses),
          overlay \in Feeds(ResetResponses), uuid \in {"u1", "u2"} :
           AssignBetUuids(room_id, feed, overlay, uuid)
    \/ Tick

SpecReset == InitWith(ResetBets) /\ [][NextReset]_vars

\* a snapshot line of one token, which has no second part to parse
MalformedSpreadDetails == <<<<"word", 0>>>>

\* the stored bets of the runs with list reads: an over on g1, an under on
\* g2, a spread bet without a snapshot line on g1 and one with a malformed
\* line on g2
ListBets ==
    {BetItem("r1", 1, <<"a">>, FxA1, OverBet, NULL),
     BetItem("r1", 2, <<"a">>, FxB, UnderBet, NULL),
     BetItem("r1", 2, <<"a">>, FxA1, SpreadBet("home", -7), NULL),
     BetItem("r1", 1, <<"a">>, FxB, SpreadBet("home", -7), MalformedSpreadDetails)}

ListStores ==
    {s \in SUBSET ListBets : Cardinality(s) = 3 /\ \E b \in s : b.game_bet = OverBet}

\* the feed answers each of the two games on its own
FeedsByGame(responses) ==
    {[g \in Games |-> IF g = "g1" THEN raw1 ELSE IF g = "g2" THEN raw2 ELSE RawError] :
        raw1 \in responses, raw2 \in responses}

\* the answers of the feed in these runs
ListResponses == {RawError, RawOneCompetitor, RawScheduled, RawFinal(24, 20), RawFinalNoScore}

NextList ==
    \/ \E room_id \in Rooms, feed \in FeedsByGame(ListResponses) :
           GetAllBetsForRoom(room_id, feed)
    \/ \E room_id \in Rooms, points_wagered \in Wagers, feed \in FeedsByGame(ListResponses) :
           GetBetsByPointValue(room_id, points_wagered, feed)
    \/ \E room_id \in Rooms, user_id \in Users, feed \in FeedsByGame(ListResponses) :
           GetUserBetsForRoom(room_id, user_id, feed)

SpecList ==
    /\ store \in ListStores
    /\ now = 1
    /\ hist = [g \in Games |-> "quiet"]
    /\ lastOp = NoOp
    /\ procs = <<>>
    /\ [][NextList]_vars

\* a final answer without the score of the home team, and one without either
RawFinalMissingScore == RawEvent(TypeFinal, HomeAway(Absent, Num(20)))
RawFinalMissingScores == RawEvent(TypeFinal, HomeAway(Absent, Absent))

\* a snapshot line whose second part is not a number
UnparsableSpreadDetails == <<<<"word", 0>>, <<"word", 0>>>>

\* the answers of the feed in the runs with inconsistent data
AbortResponses ==
    {RawScheduled, RawFinal(24, 20), RawFinalNoScore, RawFinalMissingScore,
     RawFinalMissingScores}

\* the stored bets of these runs: totals, and spread bets with a line, a
\* malformed line, an unparsable line and no line in the snapshot
AbortBets ==
    {BetItem("r1", w, <<"a">>, FxA1, OverUnderBet(choice, 91), NULL) :
        w \in Wagers, choice \in {"over", "under"}}
    \cup {BetItem("r1", w, <<"a">>, FxA1, SpreadBet(team, -7), details) :
            w \in Wagers, team \in {"home", "away"},
            details \in {SpreadDetails(-7), MalformedSpreadDetails,
                         UnparsableSpreadDetails, NULL}}

NextAbort ==
    \/ \E item \in store, raw \in AbortResponses : GetBet(item, raw)
    \/ Tick

SpecAbort == InitWith(AbortBets) /\ [][NextAbort]_vars

\* BetHelper.get_bet of a stored record while a put_item can fail
GetBetAttempt(item, raw, status_ok, result_ok) ==
    /\ item \in store
    /\ \E r \in {get_bet_attempt(store, item, raw, now, status_ok, result_ok)} :
           /\ store' = r.store
           /\ lastOp' = Op("get_bet", item, r, SchedError, raw, r.feedCalls, r.gradeCalls,
                           r.writes)
    /\ hist' = [hist EXCEPT ![item.game_id] = HistAfter(@, raw)]
    /\ UNCHANGED <<now, procs>>

NextFaults ==
    \/ \E item \in store, raw \in FeedResponses, status_ok \in BOOLEAN, result_ok \in BOOLEAN :
           GetBetAttempt(item, raw, status_ok, result_ok)
    \/ Tick

SpecFaults == InitWith(ReadBets) /\ [][NextFaults]_vars

\* a call of the resolver that is about to be made
WeekRequest(fx, sched) ==
    Op("none", [NoRequest EXCEPT !.sport = fx.sport, !.league = fx.league,
                                 !.game_id = fx.game_id,
                                 !.event_datetime = fx.event_datetime],
       NoOutcome, sched, RawError, 0, 0, 0)

\* what the resolver returns
Resolved(boundary) == [outcome |-> "", log |-> "", returned |-> {}, boundary |-> boundary]

\* WeekHelper.get_week_boundary on its own
GetWeekBoundary ==
    /\ lastOp.op = "none"
    /\ lastOp' = Op("get_week_boundary", lastOp.req,
                    Resolved(get_week_boundary(lastOp.req.sport, lastOp.req.league,
                                               lastOp.req.event_datetime,
                                               lastOp.req.game_id, lastOp.sched)),
                    lastOp.sched, RawError,
                    ScheduleCalls(lastOp.req.sport, lastOp.req.league, lastOp.req.game_id),
                    0, 0)
    /\ UNCHANGED <<store, now, hist, procs>>

\* Sunday 2025-11-02 00:00:00
WeekOrigin == DaysFromCivil(2025, 11, 2) * SecondsPerDay

\* the first, the second, the middle and the last second of each day of
\* two weeks, and the second before them
WeekTimes ==
    {WeekOrigin + d * SecondsPerDay + s : d \in 0..13, s \in {0, 1, 43200, 86399}}
    \cup {WeekOrigin - 1}

\* the sports and leagues of the calendar week
WeekLeagues ==
    {<<"basketball", "nba">>, <<"football", "ncaa">>, <<"Football", "NCAA">>,
     <<"football", "cfl">>, <<"hockey", "nfl">>}

\* NFL games: Thu 2025-09-11 20:00, Sun 2025-09-14 17:00, Sat 2025-09-13
\* 18:00 and the playoff games of Sun 2026-01-11 18:00 and Sat 2026-01-17
\* 21:00 of the season 2025
WeekGames ==
    {FxN1, FxN2, Fixture("football", "nfl", "g6", 1757869200),
     Fixture("Football", "NFL", "g6", 1757869200),
     Fixture("football", "nfl", "", 1757869200),
     Fixture("football", "nfl", "g7", 1768154400),
     Fixture("football", "nfl", "g8", 1768683600)}

WeekRequests ==
    {Fixture(sl[1], sl[2], game_id, t) :
        sl \in WeekLeagues, game_id \in {"", "g1"}, t \in WeekTimes}
    \cup WeekGames

\* schedule payloads: an error, no event, and the game listed in week 1 or
\* 2 of the regular season or of the playoffs, or without its week
WeekSchedules(game_id) ==
    {SchedError, SchedEmpty}
    \cup {[kind |-> "data", events |-> <<SchedEvent(game_id, week, type)>>] :
            week \in 0..2, type \in {2, 3}}

NextWeek == GetWeekBoundary

\* the requests and the schedule payloads are drawn at the start
SpecWeek ==
    /\ store = {}
    /\ now = 1
    /\ hist = [g \in Games |-> "quiet"]
    /\ lastOp \in UNION {{WeekRequest(fx, sched) : sched \in WeekSchedules(fx.game_id)} :
                            fx \in WeekRequests}
    /\ procs = <<>>
    /\ [][NextWeek]_vars

----------------------------------------------------------------------------
(* Several users in one room *)

\* user ids of which one is a prefix of another
RoomUsers == {<<"a">>, <<"a", "b">>, <<"b">>}

UserRequests ==
    {BetItem(room_id, points_wagered, user_id, fx, OverBet, NULL) :
        room_id \in Rooms, points_wagered \in Wagers, user_id \in RoomUsers,
        fx \in Fixtures}

NextUsers ==
    \E bet \in UserRequests : \E sched \in SchedulesFor(bet) : CreateBet(bet, sched)

SpecUsers == Init /\ [][NextUsers]_vars

----------------------------------------------------------------------------
(* Handlers run concurrently: a request is a process that takes one table  *)
(* or feed call per step and keeps its local variables in between          *)

Proc(kind, pc, bet_data, game_data, points, outcome) ==
    [kind |-> kind, pc |-> pc, bet_data |-> bet_data, game_data |-> game_data,
     points |-> points, outcome |-> outcome]

\* how a finished exact-key read ends the request
Returned(kind) == IF kind = "create_bet" THEN "DuplicateBetException" ELSE "returned"

Done(proc) == [proc EXCEPT !.pc = "done", !.outcome = Returned(proc.kind)]

\* after get_item returned the record: graded records are not fetched
AfterGetItem(kind, item) ==
    IF item.total_points_earned # NULL
    THEN Proc(kind, "done", item, NoEvent("empty"), NULL, Returned(kind))
    ELSE Proc(kind, "fetch", item, NoEvent("empty"), NULL, "")

\* after get_event: the status is set on the local record
AfterFetch(proc, game_data) ==
    IF game_data.kind # "data" THEN Done(proc)
    ELSE [proc EXCEPT !.pc = "put_status",
                      !.bet_data = WithStatus(@, game_data.status),
                      !.game_data = game_data]

\* after the status write: the finality test and the grading
AfterPutStatus(proc, points) ==
    IF ~is_final(proc.game_data.status) \/ points = NULL THEN Done(proc)
    ELSE [proc EXCEPT !.pc = "put_result", !.points = points]

\* get_bet: the get_item and the already-graded test
StartRead(item) ==
    /\ Len(procs) < MaxProcs
    /\ item \in store
    /\ procs' = Append(procs, AfterGetItem("get_bet", item))
    /\ UNCHANGED <<store, now, hist, lastOp>>

\* check_and_grade_bet: the get_event call
Fetch(p, raw) ==
    /\ procs[p].pc = "fetch"
    /\ procs' = [procs EXCEPT ![p] = AfterFetch(@, get_event(raw))]
    /\ hist' = [hist EXCEPT ![procs[p].bet_data.game_id] = HistAfter(@, raw)]
    /\ UNCHANGED <<store, now, lastOp>>

\* check_and_grade_bet: the put_item of the record with its status
PutStatus(p) ==
    /\ procs[p].pc = "put_status"
    /\ store' = PutItem(store, procs[p].bet_data)
    /\ procs' = [procs EXCEPT ![p] =
                    AfterPutStatus(@, points_earned(procs[p].bet_data, procs[p].game_data))]
    /\ UNCHANGED <<now, hist, lastOp>>

\* _update_bet_result: the put_item of the graded record
PutResult(p) ==
    /\ procs[p].pc = "put_result"
    /\ store' = PutItem(store, _update_bet_result(procs[p].bet_data,
                                                  Val(procs[p].points), now))
    /\ procs' = [procs EXCEPT ![p] = Done(@)]
    /\ UNCHANGED <<now, hist, lastOp>>

\* create_bet: the exact-key get_item
StartCreate(bet) ==
    /\ Len(procs) < MaxProcs
    /\ procs' = Append(procs,
                       IF GetItem(store, bet.PK, bet.SK) = {}
                       THEN Proc("create_bet", "validate", bet, NoEvent("empty"), NULL, "")
                       ELSE AfterGetItem("create_bet",
                                         CHOOSE i \in GetItem(store, bet.PK, bet.SK) : TRUE))
    /\ UNCHANGED <<store, now, hist, lastOp>>

\* after the validator
AfterValidate(proc, v) ==
    IF v.raised # "" THEN [proc EXCEPT !.pc = "done", !.outcome = v.raised]
    ELSE [proc EXCEPT !.pc = "game_ids"]

\* create_bet: validate_week_boundary_bet, one query of the table
Validate(p, sched) ==
    /\ procs[p].pc = "validate"
    /\ procs' = [procs EXCEPT ![p] =
                    AfterValidate(@, validate_week_boundary_bet(store, procs[p].bet_data,
                                                                sched))]
    /\ UNCHANGED <<store, now, hist, lastOp>>

\* create_bet: get_user_game_ids_for_room, one query of the table
GameIds(p) ==
    /\ procs[p].pc = "game_ids"
    /\ procs' = [procs EXCEPT ![p] =
                    IF @.bet_data.game_id
                         \in get_user_game_ids_for_room(store, @.bet_data.room_id,
                                                        @.bet_data.user_id)
                    THEN [@ EXCEPT !.pc = "done", !.outcome = "DuplicateGameException"]
                    ELSE [@ EXCEPT !.pc = "put"]]
    /\ UNCHANGED <<store, now, hist, lastOp>>

\* create_bet: the put_item
Put(p) ==
    /\ procs[p].pc = "put"
    /\ store' = PutItem(store, procs[p].bet_data)
    /\ procs' = [procs EXCEPT ![p] = [@ EXCEPT !.pc = "done", !.outcome = "created"]]
    /\ UNCHANGED <<now, hist, lastOp>>

\* the steps of a read in flight
ReadSteps(p) ==
    \/ \E raw \in FeedAfter(hist[procs[p].bet_data.game_id]) : Fetch(p, raw)
    \/ PutStatus(p)
    \/ PutResult(p)

NextReaders ==
    \/ \E item \in store : StartRead(item)
    \/ \E p \in DOMAIN procs : ReadSteps(p)

SpecReaders == InitWith({BetItem("r1", 1, <<"a">>, FxA1, OverBet, NULL)}) /\ [][NextReaders]_vars

NextCreators ==
    \/ \E bet \in RaceBets : StartCreate(bet)
    \/ \E p \in DOMAIN procs :
        \/ \E sched \in SchedulesFor(procs[p].bet_data) : Validate(p, sched)
        \/ GameIds(p)
        \/ Put(p)
        \/ ReadSteps(p)

SpecCreators == Init /\ [][NextCreators]_vars

----------------------------------------------------------------------------
(* Claims about creation *)

SameTriple(b, req) ==
    /\ b.room_id = req.room_id
    /\ b.points_wagered = req.points_wagered
    /\ b.user_id = req.user_id

KeyStored(s, req) == \E b \in s : b.PK = req.PK /\ b.SK = req.SK

InBoundary(b, boundary) ==
    /\ boundary # NULL
    /\ Val(boundary)[1] <= b.event_datetime
    /\ b.event_datetime <= Val(boundary)[2]

\* the week resolved for a request under the schedule the feed answered
ResolvedWeek(req, sched) ==
    get_week_boundary(req.sport, req.league, req.event_datetime, req.game_id, sched)

\* the stored bets that share the triple of the request and lie on another
\* game at another event time
Rivals(s, req) ==
    {b \in s : /\ SameTriple(b, req)
               /\ b.event_datetime # req.event_datetime
               /\ b.game_id # req.game_id}

\* C1: a create_bet whose triple (room_id, points_wagered, user_id) is already
\* stored on another game at another event time inside the week resolved for
\* the new bet is rejected with the duplicate-bet error and stores nothing.
C1_WeekDuplicateRejected ==
    [][(/\ lastOp'.op = "create_bet"
        /\ ~KeyStored(store, lastOp'.req)
        /\ \E b \in Rivals(store, lastOp'.req) :
               InBoundary(b, ResolvedWeek(lastOp'.req, lastOp'.sched)))
       => (lastOp'.outcome = "DuplicateBetException" /\ store' = store)]_vars

\* C2: a create_bet whose triple is already stored on another game in a
\* different resolved week, and which meets no stored bet of the user on its
\* game or of its triple in its week, succeeds, and both bets are stored.
C2_DifferentWeeksBothSucceed ==
    [][(/\ lastOp'.op = "create_bet"
        /\ ~KeyStored(store, lastOp'.req)
        /\ ResolvedWeek(lastOp'.req, lastOp'.sched) # NULL
        /\ Rivals(store, lastOp'.req) # {}
        /\ \A b \in store : SameTriple(b, lastOp'.req)
               => ~InBoundary(b, ResolvedWeek(lastOp'.req, lastOp'.sched))
        /\ \A b \in store : b.user_id = lastOp'.req.user_id
                              => b.game_id # lastOp'.req.game_id)
       => (/\ lastOp'.outcome = "created"
           /\ store' = store \cup {lastOp'.req})]_vars

C2_Witness ==
    /\ lastOp.op = "create_bet"
    /\ lastOp.outcome = "created"
    /\ lastOp.boundary # NULL
    /\ lastOp.req \in store
    /\ \E b \in Rivals(store, lastOp.req) : ~InBoundary(b, lastOp.boundary)
    /\ \A b \in Rivals(store, lastOp.req) : ~InBoundary(b, lastOp.boundary)

\* the schedule payload does not list the game
NotInSchedule(sched, game_id) ==
    \/ sched.kind = "error"
    \/ \A i \in 1..Len(sched.events) : sched.events[i].id # game_id

IsNFL(req) == req.sport = "football" /\ req.league = "nfl"

\* C10: for an NFL bet whose game the schedule payload does not list, the
\* resolver returns no boundary and the validator passes with a warning; the
\* bet is stored although the same triple is already stored at another event
\* time on another game.
C10_FailOpen ==
    [][(/\ lastOp'.op = "create_bet"
        /\ IsNFL(lastOp'.req)
        /\ ~KeyStored(store, lastOp'.req)
        /\ NotInSchedule(lastOp'.sched, lastOp'.req.game_id))
       => (/\ lastOp'.boundary = NULL
           /\ lastOp'.log = "warning: no week boundary, allowing bet"
           /\ (\A b \in store : b.user_id = lastOp'.req.user_id
                                  => b.game_id # lastOp'.req.game_id)
              => (/\ lastOp'.outcome = "created"
                  /\ store' = store \cup {lastOp'.req}))]_vars

C10_Witness ==
    /\ lastOp.op = "create_bet"
    /\ IsNFL(lastOp.req)
    /\ NotInSchedule(lastOp.sched, lastOp.req.game_id)
    /\ lastOp.boundary = NULL
    /\ lastOp.outcome = "created"
    /\ lastOp.req \in store
    /\ \E b \in Rivals(store, lastOp.req) : IsNFL(b)

\* the request meets a stored bet of its user on its game in its room
HoldsGame(s, req) ==
    \E b \in s : /\ b.room_id = req.room_id
                  /\ b.user_id = req.user_id
                  /\ b.game_id = req.game_id

\* no two stored bets of one room and user are on the same game
OneBetPerGame(s) ==
    \A b, c \in s : (/\ b.room_id = c.room_id
                      /\ b.user_id = c.user_id
                      /\ b.game_id = c.game_id) => b = c

\* C12: a create_bet whose user already holds a bet of any point value on
\* the same game_id in the room is rejected, and after every create_bet no
\* two stored bets of one (room_id, user_id) share a game_id.
C12_OneWagerPerGame ==
    [][/\ OneBetPerGame(store')
       /\ (lastOp'.op = "create_bet" /\ HoldsGame(store, lastOp'.req))
          => lastOp'.outcome \in {"DuplicateBetException", "DuplicateGameException"}]_vars

C12_Witness ==
    /\ lastOp.op = "create_bet"
    /\ lastOp.outcome = "DuplicateGameException"
    /\ lastOp.req \notin store
    /\ \E b \in store : /\ b.user_id = lastOp.req.user_id
                        /\ b.game_id = lastOp.req.game_id
                        /\ b.points_wagered # lastOp.req.points_wagered

\* the keys of the stored records
Keys(s) == {<<b.PK, b.SK>> : b \in s}

\* record c is record b but for what the grader writes: the status in the
\* snapshot, total_points_earned, graded_at and the result of the game bet
SameButGrading(b, c) ==
    [c EXCEPT !.odds_snapshot.status = b.odds_snapshot.status,
              !.total_points_earned = b.total_points_earned,
              !.graded_at = b.graded_at,
              !.game_bet.result = b.game_bet.result,
              !.game_bet.points_earned = b.game_bet.points_earned] = b

\* C15: a create_bet that is rejected leaves the table unchanged.
C15_RejectedLeavesStore ==
    [][(lastOp'.op = "create_bet" /\ lastOp'.outcome # "created")
       => store' = store]_vars

\* C15 (amended): a create_bet that is rejected creates and removes no
\* record and leaves every record of another key as it was; a rejection as
\* duplicate game leaves the table unchanged; a rejection as exact duplicate
\* changes the stored record of that key at most in what the grader writes
\* on a read.
C15_RejectedCreatesNothing ==
    [][(lastOp'.op = "create_bet" /\ lastOp'.outcome # "created")
       => /\ Keys(store') = Keys(store)
          /\ \A b \in store : (b.PK # lastOp'.req.PK \/ b.SK # lastOp'.req.SK)
                                 => b \in store'
          /\ lastOp'.outcome = "DuplicateGameException" => store' = store
          /\ \A b \in store, c \in store' :
                 (b.PK = c.PK /\ b.SK = c.SK) => SameButGrading(b, c)]_vars

C15_Witness ==
    /\ lastOp.op = "create_bet"
    /\ lastOp.outcome = "DuplicateBetException"
    /\ lastOp.writes = 2
    /\ lastOp.req \notin store
    /\ \E b \in store : /\ b.PK = lastOp.req.PK /\ b.SK = lastOp.req.SK
                        /\ b.total_points_earned # NULL

\* C18: a create_bet whose key (room_id, points_wagered, user_id,
\* event_datetime) is stored is rejected with DuplicateBetException(room_id,
\* user_id, points_wagered) before the week validator runs, whatever the
\* schedule and the event feed answer, and stores no new record.
C18_ExactDuplicateFirst ==
    [][(lastOp'.op = "create_bet" /\ KeyStored(store, lastOp'.req))
       => /\ lastOp'.outcome = "DuplicateBetException"
          /\ lastOp'.log = ""
          /\ lastOp'.boundary = NULL
          /\ Keys(store') = Keys(store)]_vars

C18_Witness ==
    /\ lastOp.op = "create_bet"
    /\ lastOp.outcome = "DuplicateBetException"
    /\ IsNFL(lastOp.req)
    /\ NotInSchedule(lastOp.sched, lastOp.req.game_id)
    /\ lastOp.sched.kind # "error"
    /\ KeyStored(store, lastOp.req)
    /\ Rivals(store, lastOp.req) # {}

----------------------------------------------------------------------------
(* Claims about grading *)

IsRead(op) == op.op \in {"get_bet", "check_and_grade_bet"}

\* C3: check_and_grade_bet on a record whose total_points_earned is non-null
\* makes no feed call and no write: the table is unchanged, whatever the
\* feed would have answered and however often it is called.
C3_GradingIdempotent ==
    [][(IsRead(lastOp') /\ lastOp'.req.total_points_earned # NULL)
       => (lastOp'.gradeCalls = 0 /\ lastOp'.writes = 0 /\ store' = store)]_vars

C3_Witness ==
    /\ lastOp.op = "check_and_grade_bet"
    /\ lastOp.req.total_points_earned # NULL
    /\ lastOp.req \in store
    /\ lastOp.raw = RawFinal(24, 20)
    /\ now > Val(lastOp.req.graded_at)

\* C9: a stored bet on a game for which every answer of the feed so far named
\* STATUS_SCHEDULED is ungraded.
C9_ScheduledNeverGraded ==
    \A b \in store : hist[b.game_id] \in {"quiet", "sched"} => b.total_points_earned = NULL

\* C9 (amended): a stored bet on a game for which every answer of the feed so
\* far named STATUS_SCHEDULED with completed false, a state other than post
\* and a detail other than final is ungraded.
C9_QuietNeverGraded ==
    \A b \in store : hist[b.game_id] = "quiet" => b.total_points_earned = NULL

C9_Witness ==
    /\ IsRead(lastOp)
    /\ lastOp.raw = RawScheduled
    /\ lastOp.gradeCalls = 1
    /\ hist[lastOp.req.game_id] = "quiet"
    /\ \E b \in store : /\ b.odds_snapshot.status # NULL
                        /\ Val(b.odds_snapshot.status).name = "STATUS_SCHEDULED"
                        /\ b.total_points_earned = NULL

\* the record stored under the key of a request
StoredOf(req) == CHOOSE b \in store : b.PK = req.PK /\ b.SK = req.SK

\* the final score a payload lists for a designation
FinalScoreOf(raw, side) ==
    raw.competitors[CHOOSE i \in DOMAIN raw.competitors :
                        raw.competitors[i].homeAway = side].score[2]

TotalOf(raw) == FinalScoreOf(raw, "home") + FinalScoreOf(raw, "away")

\* selected team's final score minus the opponent's
MarginOf(req, raw) ==
    IF req.game_bet.team_choice = "home"
    THEN FinalScoreOf(raw, "home") - FinalScoreOf(raw, "away")
    ELSE FinalScoreOf(raw, "away") - FinalScoreOf(raw, "home")

\* the last handler read an ungraded bet of the type while the feed showed
\* the game final
FinalRead(bet_type) ==
    /\ lastOp.op = "get_bet"
    /\ lastOp.req.total_points_earned = NULL
    /\ lastOp.req.game_bet.bet_type = bet_type
    /\ lastOp.raw.kind = "event"
    /\ lastOp.raw.type.name = "STATUS_FINAL"

\* a spread bet whose snapshot carries the line captured on the bet
SpreadRead ==
    /\ FinalRead("spread")
    /\ lastOp.req.odds_snapshot.spreadDetails
         = SpreadDetails(Val(lastOp.req.game_bet.spread_value))

LineOf(req) == Val(req.game_bet.spread_value)

Earned(req, wins) == Some(IF wins THEN req.points_wagered ELSE 0)

\* C6: a spread bet read on a final game earns points_wagered exactly when
\* the margin is strictly greater than the signed line, whatever its sign.
C6_OneRuleForEverySign ==
    SpreadRead
    => StoredOf(lastOp.req).total_points_earned
         = Earned(lastOp.req, 2 * MarginOf(lastOp.req, lastOp.raw) > LineOf(lastOp.req))

\* C6 (amended): a spread bet read on a final game earns points_wagered
\* exactly when the line is below zero and the margin is at least its
\* absolute value, or the line is zero or above and the margin is strictly
\* greater than it; it earns 0 otherwise.
C6_RuleBySign ==
    SpreadRead
    => StoredOf(lastOp.req).total_points_earned
         = Earned(lastOp.req,
                  \/ /\ LineOf(lastOp.req) < 0
                     /\ 2 * MarginOf(lastOp.req, lastOp.raw) >= -LineOf(lastOp.req)
                  \/ /\ LineOf(lastOp.req) >= 0
                     /\ 2 * MarginOf(lastOp.req, lastOp.raw) > LineOf(lastOp.req))

C6_Witness ==
    /\ SpreadRead
    /\ LineOf(lastOp.req) = -6
    /\ MarginOf(lastOp.req, lastOp.raw) = 3
    /\ StoredOf(lastOp.req).total_points_earned = Some(lastOp.req.points_wagered)

\* C7: a spread bet on the home team with line -3.5 read on a final game is
\* graded a win (points_wagered) at home 24, away 20 and a loss (0) at home
\* 23, away 20.
C7_HomeMinusThreeAndAHalf ==
    (/\ SpreadRead
     /\ lastOp.req.game_bet.team_choice = "home"
     /\ LineOf(lastOp.req) = -7
     /\ FinalScoreOf(lastOp.raw, "away") = 20)
    => /\ FinalScoreOf(lastOp.raw, "home") = 24
          => StoredOf(lastOp.req).total_points_earned = Some(lastOp.req.points_wagered)
       /\ FinalScoreOf(lastOp.raw, "home") = 23
          => StoredOf(lastOp.req).total_points_earned = Some(0)

C7_Witness ==
    /\ SpreadRead
    /\ lastOp.req.game_bet.team_choice = "home"
    /\ LineOf(lastOp.req) = -7
    /\ lastOp.raw = RawFinalAwayFirst(24, 20)
    /\ lastOp.req.points_wagered = 2
    /\ StoredOf(lastOp.req).total_points_earned = Some(2)
    /\ StoredOf(lastOp.req).game_bet.result = Some("win")

\* C19: a spread bet that carries game_bet.spread_value, read on a final
\* game, is graded on that value, also when the odds snapshot has no spread
\* data.
C19_LineFromBet ==
    (FinalRead("spread") /\ lastOp.req.game_bet.spread_value # NULL)
    => StoredOf(lastOp.req).total_points_earned
         = Earned(lastOp.req,
                  \/ /\ LineOf(lastOp.req) < 0
                     /\ 2 * MarginOf(lastOp.req, lastOp.raw) >= -LineOf(lastOp.req)
                  \/ /\ LineOf(lastOp.req) >= 0
                     /\ 2 * MarginOf(lastOp.req, lastOp.raw) > LineOf(lastOp.req))

\* C8: an over/under bet read on a final game earns points_wagered exactly
\* when it is an over and the total exceeds the line, or an under and the
\* total is below the line; a total equal to the line earns 0, and the
\* result is win or loss, never push.
C8_OverUnderStrict ==
    FinalRead("over_under")
    => /\ StoredOf(lastOp.req).total_points_earned
            = Earned(lastOp.req,
                     \/ /\ lastOp.req.game_bet.over_under_choice = "over"
                        /\ 2 * TotalOf(lastOp.raw) > Val(lastOp.req.game_bet.total_value)
                     \/ /\ lastOp.req.game_bet.over_under_choice = "under"
                        /\ 2 * TotalOf(lastOp.raw) < Val(lastOp.req.game_bet.total_value))
       /\ StoredOf(lastOp.req).game_bet.result
            \in {Some("win"), Some("loss")}
       /\ 2 * TotalOf(lastOp.raw) = Val(lastOp.req.game_bet.total_value)
            => StoredOf(lastOp.req).total_points_earned = Some(0)

C8_Witness ==
    /\ FinalRead("over_under")
    /\ 2 * TotalOf(lastOp.raw) = Val(lastOp.req.game_bet.total_value)
    /\ StoredOf(lastOp.req).total_points_earned = Some(0)
    /\ StoredOf(lastOp.req).game_bet.result = Some("loss")

----------------------------------------------------------------------------
(* Claims about concurrent requests *)

\* C4: whatever the interleaving of the reads in flight, a stored record whose
\* total_points_earned is non-null keeps that value in the next state.
C4_GradedIsTerminal ==
    [][\A b \in store : b.total_points_earned # NULL
          => \E c \in store' : /\ c.PK = b.PK
                               /\ c.SK = b.SK
                               /\ c.total_points_earned = b.total_points_earned]_vars

\* C5: of two create_bet requests for one key that both found the key absent,
\* at most one ends with the bet created.
C5_AtMostOneCreateSucceeds ==
    \A p, q \in DOMAIN procs :
        (/\ p # q
         /\ procs[p].kind = "create_bet"
         /\ procs[q].kind = "create_bet"
         /\ procs[p].bet_data.PK = procs[q].bet_data.PK
         /\ procs[p].bet_data.SK = procs[q].bet_data.SK
         /\ procs[p].outcome = "created")
        => procs[q].outcome # "created"

\* the four signals, on the status fields as the feed spells them
FourSignals(type) ==
    \/ type.name \in {"final", "Final", "FINAL", "status_final", "STATUS_FINAL"}
    \/ type.detail \in {"final", "Final", "FINAL"}
    \/ type.completed
    \/ type.state = "post"

\* C13: a read of an ungraded bet for which the feed answers an event sets
\* total_points_earned exactly when the status name lower-cased is final or
\* status_final, or the detail lower-cased is final, or completed is true,
\* or the state is post; with none of the four the bet stays ungraded.
C13_FinalByFourSignals ==
    (/\ lastOp.op = "get_bet"
     /\ lastOp.req.total_points_earned = NULL
     /\ lastOp.raw.kind = "event")
    => (StoredOf(lastOp.req).total_points_earned # NULL <=> FourSignals(lastOp.raw.type))

C13_Witness ==
    /\ lastOp.op = "get_bet"
    /\ lastOp.req.total_points_earned = NULL
    /\ lastOp.raw.type = RawType("STATUS_IN_PROGRESS", "post", FALSE, "Final/OT")
    /\ StoredOf(lastOp.req).total_points_earned # NULL

\* C20: every stored record with a non-null total_points_earned has it in
\* {0, points_wagered}, carries graded_at, has game_bet.result win exactly
\* when the total equals points_wagered and loss otherwise, and has
\* game_bet.points_earned equal to the total.
C20_GradedRecordWhole ==
    \A b \in store :
        b.total_points_earned # NULL
        => /\ Val(b.total_points_earned) \in {0, b.points_wagered}
           /\ b.graded_at # NULL
           /\ b.game_bet.result
                = Some(IF Val(b.total_points_earned) = b.points_wagered
                       THEN "win" ELSE "loss")
           /\ b.game_bet.points_earned = b.total_points_earned

C20_Witness ==
    /\ lastOp.op = "get_bet"
    /\ lastOp.writes = 2
    /\ lastOp.req.total_points_earned = NULL
    /\ \E b \in store : /\ b.total_points_earned = Some(0)
                        /\ b.game_bet.result = Some("loss")
                        /\ b.game_bet.points_earned = Some(0)
                        /\ b.graded_at = Some(now)
                        /\ b.points_wagered = 2

----------------------------------------------------------------------------
(* Claims about the endpoints *)

\* the request passed authentication and the membership test
Admitted(op) == op.op = "create_bet_endpoint" /\ op.outcome \notin {"401", "403"}

\* the status check received an event dictionary
StatusFetched(raw) == raw.kind = "event" /\ Len(raw.competitors) >= 2

\* C17: the create endpoint stores a bet only if the status name the feed
\* answers is STATUS_SCHEDULED, SCHEDULED or PRE; for another name it fails
\* with InvalidGameStatusException, without data with
\* GameDataNotFoundException, and stores nothing.
C17_StoredOnlyWhenScheduled ==
    [][Admitted(lastOp')
       => /\ store' # store
             => (/\ StatusFetched(lastOp'.raw)
                 /\ lastOp'.raw.type.name \in {"STATUS_SCHEDULED", "SCHEDULED", "PRE"})
          /\ (/\ StatusFetched(lastOp'.raw)
              /\ lastOp'.raw.type.name \notin {"STATUS_SCHEDULED", "SCHEDULED", "PRE"})
             => (lastOp'.outcome = "InvalidGameStatusException" /\ store' = store)
          /\ lastOp'.raw.kind # "event"
             => (lastOp'.outcome = "GameDataNotFoundException" /\ store' = store)]_vars

\* C17 (amended): the same with the status name compared after upper-casing.
C17_StoredOnlyWhenScheduledAnyCase ==
    [][Admitted(lastOp')
       => /\ store' # store
             => (/\ StatusFetched(lastOp'.raw)
                 /\ Upper(lastOp'.raw.type.name) \in {"STATUS_SCHEDULED", "SCHEDULED", "PRE"})
          /\ (/\ StatusFetched(lastOp'.raw)
              /\ Upper(lastOp'.raw.type.name) \notin {"STATUS_SCHEDULED", "SCHEDULED", "PRE"})
             => (lastOp'.outcome = "InvalidGameStatusException" /\ store' = store)
          /\ lastOp'.raw.kind # "event"
             => (lastOp'.outcome = "GameDataNotFoundException" /\ store' = store)]_vars

C17_Witness ==
    /\ Admitted(lastOp)
    /\ lastOp.outcome = "created"
    /\ lastOp.raw = RawNamed("pre")
    /\ lastOp.req \in store

\* the game has not started according to the answer: no data, or a status
\* name outside the started list
NotStarted(raw) ==
    \/ raw.kind # "event"
    \/ /\ StatusFetched(raw)
       /\ raw.type.name \notin {"STATUS_IN_PROGRESS", "IN_PROGRESS", "LIVE",
                                 "STATUS_FINAL", "FINAL", "COMPLETED"}

\* the same with the status name upper-cased
NotStartedAnyCase(raw) ==
    \/ raw.kind # "event"
    \/ /\ StatusFetched(raw)
       /\ Upper(raw.type.name) \notin {"STATUS_IN_PROGRESS", "IN_PROGRESS", "LIVE",
                                        "STATUS_FINAL", "FINAL", "COMPLETED"}

\* record r of a response is the bet b
IsBet(r, b) ==
    /\ r.room_id = b.room_id
    /\ r.user_id = b.user_id
    /\ r.points_wagered = b.points_wagered
    /\ r.event_datetime = b.event_datetime

\* the selections another bet on the game could carry
Selections ==
    {<<OverBet, NULL>>, <<UnderBet, NULL>>, <<SpreadBet("home", -7), SpreadDetails(-7)>>,
     <<SpreadBet("away", -7), SpreadDetails(-7)>>}

\* the table with the selection of b replaced
WithSelection(s, b, sel) ==
    (s \ {b}) \cup {[b EXCEPT !.game_bet = sel[1], !.odds_snapshot.spreadDetails = sel[2]]}

\* the response the same request would get with the table s
SameRequest(s, op, t) ==
    get_bets_for_room(s, op.req.room_id, op.req.user_id, TRUE, op.raw.helper,
                      op.raw.endpoint, t).returned

\* the privacy of the bets of others, for the test started(raw) of a game
\* that has not started
Privacy(op, pre, post, t, notStarted(_)) ==
    (op.op = "get_bets_for_room" /\ op.outcome = "200")
    => /\ \A b \in pre :
             (b.user_id # op.req.user_id /\ notStarted(op.raw.endpoint[b.game_id]))
             => /\ \A r \in op.returned :
                       IsBet(r, b) => /\ r.game_bet = NULL
                                      /\ r.odds_snapshot = EmptySnapshot
                                      /\ r.total_points_earned = NULL
                /\ \A sel \in Selections :
                       SameRequest(WithSelection(pre, b, sel), op, t) = op.returned
       /\ \A b \in post : b.user_id = op.req.user_id => BetDict(b) \in op.returned

\* C16: in the response of get_bets_for_room a bet of another user whose
\* game has not started according to the feed (no data, or a status name
\* outside the started list) has game_bet null, odds_snapshot empty and
\* total_points_earned null, and the response is the same whatever that
\* bet's selection; the requester's own bets are returned in full.
C16_BetPrivacy ==
    [][Privacy(lastOp', store, store', now, NotStarted)]_vars

\* C16 (amended): the same with the status name compared after upper-casing.
C16_BetPrivacyAnyCase ==
    [][Privacy(lastOp', store, store', now, NotStartedAnyCase)]_vars

C16_Witness ==
    /\ lastOp.op = "get_bets_for_room"
    /\ lastOp.outcome = "200"
    /\ lastOp.req.user_id = <<"a">>
    /\ lastOp.raw.helper["g1"] = RawFinal(24, 20)
    /\ lastOp.raw.endpoint["g1"] = RawScheduled
    /\ \E b \in store : /\ b.user_id = <<"b">>
                        /\ b.total_points_earned = Some(1)
                        /\ Hidden(BetDict(b)) \in lastOp.returned
    /\ \E b \in store : b.user_id = <<"a">> /\ BetDict(b) \in lastOp.returned

----------------------------------------------------------------------------
(* Claims about the read paths *)

\* the read of the last handler reaches the stored record b
Covers(op, b) ==
    \/ op.op = "get_bet" /\ op.req = b
    \/ op.op = "get_all_bets_for_room" /\ op.req.room_id = b.room_id
    \/ /\ op.op = "get_bets_by_point_value"
       /\ op.req.room_id = b.room_id
       /\ op.req.points_wagered = b.points_wagered
    \/ /\ op.op = "get_user_bets_for_room"
       /\ op.req.room_id = b.room_id
       /\ op.req.user_id = b.user_id

\* the payload the feed answered for the game of b during the read
AnswerFor(op, b) == IF op.op = "get_bet" THEN op.raw ELSE op.raw[b.game_id]

\* the feed was reachable and reported the game as final
ReportsFinal(raw) == raw.kind = "event" /\ is_final(raw.type)

\* the read returned the record of b graded, and that record is stored
GradedReturn(op, b, s) ==
    \E r \in op.returned : /\ r.PK = b.PK /\ r.SK = b.SK
                           /\ r.total_points_earned # NULL
                           /\ r \in s

\* C11: a read through get_bet, get_all_bets_for_room,
\* get_bets_by_point_value or get_user_bets_for_room that reaches a stored
\* ungraded bet while the feed is reachable and reports the game as final
\* returns the bet with non-null total_points_earned and stores it graded.
C11_LazyGradingOnRead ==
    [][\A b \in store :
          (/\ b.total_points_earned = NULL
           /\ Covers(lastOp', b)
           /\ ReportsFinal(AnswerFor(lastOp', b)))
          => GradedReturn(lastOp', b, store')]_vars

\* the feed returned no data: an error, a body without competitions, or a
\* competition with fewer than two competitors
NoData(raw) == raw.kind # "event" \/ Len(raw.competitors) < 2

\* C14: a read that reaches a stored ungraded bet while the feed returns no
\* data for its game writes nothing, leaves the record as it was and returns
\* it ungraded; and every read of an ungraded bet, also after such a read,
\* asks the feed again.
C14_NoDataIsNoOp ==
    [][\A b \in store :
          (b.total_points_earned = NULL /\ Covers(lastOp', b))
          => /\ lastOp'.gradeCalls >= 1
             /\ NoData(AnswerFor(lastOp', b))
                => (/\ lastOp'.writes = 0
                    /\ store' = store
                    /\ lastOp'.outcome = ""
                    /\ b \in lastOp'.returned)]_vars

C14_Witness ==
    /\ lastOp.op = "get_user_bets_for_room"
    /\ lastOp.raw["g1"] = RawOneCompetitor
    /\ lastOp.gradeCalls = 1
    /\ lastOp.writes = 0
    /\ \E b \in store : /\ b \in lastOp.returned
                        /\ b.total_points_earned = NULL
                        /\ b.odds_snapshot.status # NULL

----------------------------------------------------------------------------
(* Claims about the administrative operations *)

\* C21: after any sequence of reads, grading, resets and uuid assignment no
\* stored record carries the game_status overlay of the response.
C21_OverlayNeverStored == \A b \in store : "game_status" \notin DOMAIN b

\* the reset of the last handler reaches the stored record b
ResetCovers(op, b) ==
    \/ /\ op.op = "reset_bet"
       /\ op.req.room_id = b.room_id
       /\ op.req.points_wagered = b.points_wagered
       /\ op.req.user_id = b.user_id
       /\ op.req.event_datetime = b.event_datetime
    \/ op.op = "reset_bets_for_room" /\ op.req.room_id = b.room_id

\* the record stored in s under the key of b
SameKey(s, b) == {c \in s : c.PK = b.PK /\ c.SK = b.SK}

\* C27: after reset_bet or reset_bets_for_room on a stored graded bet the
\* stored total_points_earned is null; a read of a bet that was graded and
\* reset, while the feed reports the final score it reported before, grades
\* it to the total it had before the reset; reset_bet on a key that is not
\* stored writes nothing.
C27_ResetThenRegrade ==
    [][/\ \A b \in store :
             (b.total_points_earned # NULL /\ ResetCovers(lastOp', b))
             => /\ SameKey(store', b) # {}
                /\ \A c \in SameKey(store', b) : c.total_points_earned = NULL
       /\ \A b \in store :
             (/\ b.total_points_earned = NULL
              /\ b.graded_at # NULL
              /\ Covers(lastOp', b)
              /\ ReportsFinal(AnswerFor(lastOp', b)))
             => /\ SameKey(store', b) # {}
                /\ \A c \in SameKey(store', b) :
                       c.total_points_earned = b.game_bet.points_earned
       /\ (lastOp'.op = "reset_bet" /\ \A b \in store : ~ResetCovers(lastOp', b))
          => (store' = store /\ lastOp'.writes = 0)]_vars

C27_Witness ==
    /\ lastOp.op = "get_bet"
    /\ lastOp.req.total_points_earned = NULL
    /\ lastOp.req.graded_at # NULL
    /\ lastOp.req.game_bet.points_earned = Some(2)
    /\ lastOp.writes = 2
    /\ \E c \in store : /\ c.PK = lastOp.req.PK /\ c.SK = lastOp.req.SK
                        /\ c.total_points_earned = Some(2)

\* C29: in every stored record game_bet.result, game_bet.points_earned and
\* graded_at are set only if total_points_earned is non-null.
C29_AnnotationsFollowGrade ==
    \A b \in store :
        b.total_points_earned = NULL
        => /\ b.game_bet.result = NULL
           /\ b.game_bet.points_earned = NULL
           /\ b.graded_at = NULL

----------------------------------------------------------------------------
(* Claims about failures while grading *)

IsListRead(op) ==
    op.op \in {"get_all_bets_for_room", "get_bets_by_point_value", "get_user_bets_for_room"}

\* the answer lists two competitors or more and no score that is present
\* and not a number
ScoresReadable(raw) ==
    /\ raw.kind = "event"
    /\ Len(raw.competitors) >= 2
    /\ \A i \in 1..Len(raw.competitors) : raw.competitors[i].score # Bad

\* the bet carries the line its grading reads
LineReadable(b) ==
    \/ b.game_bet.bet_type = "over_under" /\ b.game_bet.total_value # NULL
    \/ /\ b.game_bet.bet_type = "spread"
       /\ b.odds_snapshot.spreadDetails # NULL
       /\ Len(b.odds_snapshot.spreadDetails) >= 2
       /\ b.odds_snapshot.spreadDetails[2][1] = "num"

\* the grading of b fails during the read: the feed gives no data or a
\* score or line that cannot be read
GradingFails(op, b) ==
    \/ NoData(AnswerFor(op, b))
    \/ ~ScoresReadable(AnswerFor(op, b))
    \/ ~LineReadable(b)

\* C22: a list read returns normally and returns every bet it queried,
\* whatever the feed answers; a feed or parse failure while grading one bet
\* leaves the others be: every queried ungraded bet whose game the feed
\* reports final, with its scores and with a line to read, is graded.
C22_FailureStaysWithItsBet ==
    [][IsListRead(lastOp')
       => /\ lastOp'.outcome = ""
          /\ \A b \in store :
                Covers(lastOp', b)
                => /\ \E r \in lastOp'.returned : r.PK = b.PK /\ r.SK = b.SK
                   /\ (/\ b.total_points_earned = NULL
                       /\ ReportsFinal(AnswerFor(lastOp', b))
                       /\ ~GradingFails(lastOp', b))
                      => GradedReturn(lastOp', b, store')]_vars

C22_Witness ==
    /\ lastOp.op = "get_all_bets_for_room"
    /\ Cardinality(lastOp.returned) = 3
    /\ lastOp.raw["g1"] = RawFinal(24, 20)
    /\ lastOp.raw["g2"] = RawOneCompetitor
    /\ \E b, c, d \in lastOp.returned :
           /\ b.game_id = "g1" /\ b.game_bet.bet_type = "over_under"
           /\ b.total_points_earned = Some(0) /\ b \in store
           /\ c.game_id = "g1" /\ c.game_bet.bet_type = "spread"
           /\ c.total_points_earned = NULL
           /\ d.game_id = "g2" /\ d.total_points_earned = NULL

\* the answer leaves out or spoils the score of a competitor
ScoreMissing(raw) ==
    \E i \in 1..Len(raw.competitors) : raw.competitors[i].score \in {Absent, Bad}

\* C23: a read of an ungraded bet on a final game in which the score of a
\* competitor is missing, or of a spread bet whose snapshot line cannot be
\* parsed, does not grade the bet: the stored total_points_earned stays null.
C23_AbortOnInconsistentData ==
    (/\ lastOp.op = "get_bet"
     /\ lastOp.req.total_points_earned = NULL
     /\ ReportsFinal(lastOp.raw)
     /\ \/ ScoreMissing(lastOp.raw)
        \/ lastOp.req.game_bet.bet_type = "spread" /\ ~LineReadable(lastOp.req))
    => StoredOf(lastOp.req).total_points_earned = NULL

\* C24: when the grading of a bet aborts on a feed or parse error or on a
\* failing write, so that the store holds the bet ungraded, the bet that
\* get_bet returns has the total_points_earned, graded_at and
\* game_bet.result of the stored record.
C24_AbortReturnsPriorState ==
    (lastOp.op = "get_bet" /\ StoredOf(lastOp.req).total_points_earned = NULL)
    => \A r \in lastOp.returned :
          /\ r.total_points_earned = StoredOf(lastOp.req).total_points_earned
          /\ r.graded_at = StoredOf(lastOp.req).graded_at
          /\ r.game_bet.result = StoredOf(lastOp.req).game_bet.result

----------------------------------------------------------------------------
(* Claims about the week resolver *)

IsNFLFootball(req) == Lower(req.sport) = "football" /\ Lower(req.league) = "nfl"

\* the Sunday-to-Saturday week of a timestamp, counted from the epoch
\* (1970-01-04 was a Sunday)
SundayWeekOf(t) == (t - 3 * 86400) \div (7 * 86400)

Listed(op) == find_nfl_week_by_game_id(op.req.game_id, op.sched)

\* the resolver was asked for an NFL game that the schedule lists with its
\* week and season type
ListedGame(op) ==
    /\ op.op = "get_week_boundary"
    /\ IsNFLFootball(op.req)
    /\ op.req.game_id # ""
    /\ Listed(op) # NULL
    /\ Val(Listed(op)).week # 0
    /\ Val(Listed(op)).type # 0

\* C26: for an NFL playoff game (season type 3, week k) played in January
\* of the year after its season year, the boundary starts at January 14 of
\* the year the game is played in plus (k - 1) * 7 days.
C26_PlayoffsAnchoredToSeason ==
    (/\ ListedGame(lastOp)
     /\ Val(Listed(lastOp)).type = 3
     /\ lastOp.req.event_datetime
          < DaysFromCivil(YearOf(lastOp.req.event_datetime), 2, 1) * 86400)
    => /\ lastOp.boundary # NULL
       /\ Val(lastOp.boundary)[1]
            = (DaysFromCivil(YearOf(lastOp.req.event_datetime), 1, 14)
               + (Val(Listed(lastOp)).week - 1) * 7) * 86400

\* C30: for an NFL game found in the season schedule the boundary contains
\* the event timestamp of the game, and the boundary of the next week of
\* the season type starts at the second after its end.
C30_WeekContainsItsGames ==
    ListedGame(lastOp)
    => /\ lastOp.boundary # NULL
       /\ Val(lastOp.boundary)[1] <= lastOp.req.event_datetime
       /\ lastOp.req.event_datetime <= Val(lastOp.boundary)[2]
       /\ Val(get_week_dates_for_season(YearOf(lastOp.req.event_datetime),
                                        Val(Listed(lastOp)).type,
                                        Val(Listed(lastOp)).week + 1))[1]
            = Val(lastOp.boundary)[2] + 1

----------------------------------------------------------------------------
(* Claims about several users in one room *)

\* the records of the table that user_id owns
OwnBets(s, user_id) == {i \in s : i.user_id = user_id}

\* C28: a create_bet by a user ends, and its validator reports, as it would
\* on a table that holds that user's own bets only: the bets of another
\* user of the room never reject it.
C28_OtherUsersNeverReject ==
    [][lastOp'.op = "create_bet"
       => /\ lastOp'.outcome
               = create_bet(OwnBets(store, lastOp'.req.user_id), lastOp'.req,
                            lastOp'.raw, lastOp'.sched, now).outcome
          /\ lastOp'.log
               = create_bet(OwnBets(store, lastOp'.req.user_id), lastOp'.req,
                            lastOp'.raw, lastOp'.sched, now).log]_vars

====
